---- MODULE Spec2Model ----
(***************************************************************************)
(* A model of the googletrends client: the transport (do / doPost with the *)
(* one-shot cookie retry on 429), the reference-tree cache, the widget     *)
(* precondition checks of the detail operations, the batch-response        *)
(* extractor and the ExploreResponse collection helpers.                   *)
(*                                                                         *)
(* Strings are sequences of one-character strings, so that Split,          *)
(* HasPrefix, Contains, LastIndex and ParseInt are computed as the Go      *)
(* library computes them.                                                  *)
(***************************************************************************)
EXTENDS Integers, Sequences, FiniteSets, TLC

VARIABLES
    cookie,       \* gClient.cookie                       (client.go:42)
    exploreCats,  \* gClient.exploreCats, Nil when unset  (client.go:37)
    exploreLocs,  \* gClient.exploreLocs, Nil when unset  (client.go:40)
    pc,           \* position of the operation in flight: "idle" or "resend"
    cur,          \* the operation in flight: its name and the request r it holds
    calls,        \* the calls of httpClient.Do by the last operation: request and answer
    ret,          \* what the last operation returned
    snap,         \* cookie, cache slots, widget and descriptor as they were when the last operation began
    w,            \* the caller's widget, which the detail operations are handed
    text,         \* argument of extractJSONFromResponse
    lines,        \* the lines text was assembled from
    result,       \* what extractJSONFromResponse returned
    e,            \* the receiver of an ExploreResponse method
    e0,           \* the receiver as it was before the method ran
    out,          \* what the ExploreResponse method returned
    proc,         \* concurrent callers: the operation, position and locals of each
    lock,         \* the RWMutex of each cache slot: its writer and its readers
    writes,       \* the values written to each cache slot, in the order of the writes
    exploreReq    \* the caller's *ExploreRequest, which Explore is handed

vars == <<cookie, exploreCats, exploreLocs, pc, cur, calls, ret, snap, w,
          text, lines, result, e, e0, out, proc, lock, writes, exploreReq>>

clientVars == <<cookie, exploreCats, exploreLocs, pc, cur, calls, ret, snap>>
extractVars == <<text, lines, result>>
widgetVars == <<e, e0, out>>
concVars == <<proc, lock, writes>>
otherVars == <<w, text, lines, result, e, e0, out, proc, lock, writes, exploreReq>>

-----------------------------------------------------------------------------
(* Bounds of the model.                                                    *)

\* Longest Set-Cookie header value the sender answers with.
MaxHdrLen == 2

-----------------------------------------------------------------------------
(* Strings.                                                                *)

\* All sequences over S of length at most n.
SeqsUpTo(S, n) == UNION {[1..k -> S] : k \in 0..n}

\* strings.HasPrefix(s, p)
HasPrefix(s, p) == Len(s) >= Len(p) /\ SubSeq(s, 1, Len(p)) = p

\* strings.HasSuffix(s, p)
HasSuffix(s, p) == Len(s) >= Len(p) /\ SubSeq(s, Len(s) - Len(p) + 1, Len(s)) = p

\* strings.Index(s, sub), 1-based; 0 when sub does not occur (Go: -1).
Index(s, sub) ==
    LET hits == {i \in 1..(Len(s) - Len(sub) + 1) : SubSeq(s, i, i + Len(sub) - 1) = sub}
    IN  IF hits = {} THEN 0 ELSE CHOOSE i \in hits : \A j \in hits : i <= j

\* strings.Contains(s, sub)
Contains(s, sub) == Index(s, sub) # 0

\* strings.Split(s, sep) for a one-character separator: the segments between
\* the separators; a string without separator (the empty one too) gives one segment.
RECURSIVE Split(_, _)
Split(s, sep) ==
    LET i == Index(s, <<sep>>)
    IN  IF i = 0 THEN <<s>>
        ELSE <<SubSeq(s, 1, i - 1)>> \o Split(SubSeq(s, i + 1, Len(s)), sep)

\* strings.Replace with every occurrence of old removed.
RECURSIVE ReplaceEvery(_, _)
ReplaceEvery(s, old) ==
    LET i == Index(s, old)
    IN  IF i = 0 THEN s
        ELSE SubSeq(s, 1, i - 1) \o ReplaceEvery(SubSeq(s, i + Len(old), Len(s)), old)

\* strings.Replace(s, old, "", 1): s without the first occurrence of old.
ReplaceFirst(s, old) ==
    LET i == Index(s, old)
    IN  IF i = 0 THEN s
        ELSE SubSeq(s, 1, i - 1) \o SubSeq(s, i + Len(old), Len(s))

-----------------------------------------------------------------------------
(* The sender (HTTPDoer) and what it answers.                              *)

StatusOK == 200
StatusTooManyRequests == 429
StatusInternalServerError == 500

\* Characters of a Set-Cookie header value.
HdrChars == {"a", ";"}

\* Header values; <<>> is also what Header.Get gives for a header that is not set.
HeaderVals == SeqsUpTo(HdrChars, MaxHdrLen)

\* Response bodies as token sequences: "PFX" is the token )]}' , "," a comma,
\* "X" text that is no JSON, and the others whole JSON documents.
CatDocs == {"J1", "J3"}
LocDocs == {"J2"}
Docs == CatDocs \cup LocDocs
Bodies == {<<"PFX", "J1">>, <<"PFX", "J3">>, <<"PFX", "J2">>,
           <<"PFX", ",", "J1">>, <<"X">>}

\* httpClient.Do returned an error (network failure, cancelled context).
TransportErr == [kind |-> "err", status |-> 0, setCookie |-> <<>>, body |-> <<>>]

Response(st, h, b) == [kind |-> "resp", status |-> st, setCookie |-> h, body |-> b]

\* What the sender may answer to a call of a detail operation or of Explore.
DetailResponses ==
    {TransportErr,
     Response(StatusTooManyRequests, <<"a", ";">>, <<>>),
     Response(StatusOK, <<>>, <<"PFX", ",", "J1">>),
     Response(StatusOK, <<>>, <<"PFX", "J1">>),
     Response(StatusInternalServerError, <<>>, <<"X">>)}

\* What the sender may answer to one call: an error, a 429 with any header
\* value, a 200 with any body, and a 200 and a 500 that set a cookie too.
Responses ==
    {TransportErr}
    \cup {Response(StatusTooManyRequests, h, <<>>) : h \in HeaderVals}
    \cup {Response(StatusOK, <<>>, b) : b \in Bodies}
    \cup {Response(StatusOK, <<"a">>, <<"PFX", "J1">>)}
    \cup {Response(StatusInternalServerError, h, <<"X">>) : h \in {<<>>, <<"a">>}}

-----------------------------------------------------------------------------
(* Errors and results.                                                     *)

errParsing == "failed to parse json"
errDoRequest == "failed to perform request"

\* An error value: the message prefix put in front of the wrapped cause,
\* the cause, and the status code of a failed request.
Err(prefix, wraps, code) == [prefix |-> prefix, wraps |-> wraps, code |-> code]
NoErr == Err("", "nil", 0)
ErrRequestFailed(code) == Err("", "ErrRequestFailed", code)
ErrInvalidWidgetType == Err("", "ErrInvalidWidgetType", 0)

\* Tree pointers: the nil pointer and the trees the documents decode to.
NilTree == [isNil |-> TRUE, name |-> "", id |-> ""]
Tree(n, i) == [isNil |-> FALSE, name |-> n, id |-> i]

\* The result of do / doPost: the body read, or an error.
DoRet(b, err) == [body |-> b, err |-> err]

\* The request r, as the sender sees it when it is called.
Request(method, url, hasCookie, cookieVal, payload) ==
    [method |-> method, url |-> url, hasCookie |-> hasCookie,
     cookieVal |-> cookieVal, payload |-> payload]

\* The header set-up without the Cookie header.
NewRequestNoCookie(method, url, payload, c) == Request(method, url, FALSE, <<>>, payload)

\* http.NewRequestWithContext followed by the header set-up of do / doPost:
\* the Cookie header is added only when a cookie is stored.
NewRequest(method, url, payload, c) ==
    Request(method, url, Len(c) # 0, IF Len(c) # 0 THEN c ELSE <<>>, payload)

-----------------------------------------------------------------------------
(* Transport: do and doPost.                                               *)

\* StatusCheck that loses the status code of the failed request.
StatusCheckNoCode(resp) ==
    IF resp.status # StatusOK
    THEN DoRet(<<>>, ErrRequestFailed(0))
    ELSE DoRet(resp.body, NoErr)

\* The status check both end with: any final status other than 200 is
\* ErrRequestFailed carrying the code, and 200 gives the body (io.ReadAll).
StatusCheck(resp) ==
    IF resp.status # StatusOK
    THEN DoRet(<<>>, ErrRequestFailed(resp.status))
    ELSE DoRet(resp.body, NoErr)

\* FirstSend that keeps a cookie already stored.
FirstSendCaptureOnce(r, resp, c, bodyRead) ==
    IF resp.kind = "err"
    THEN [done |-> TRUE, ret |-> DoRet(<<>>, Err(errDoRequest, "cause", 0)),
          cookie |-> c, r |-> r]
    ELSE IF resp.status = StatusTooManyRequests
    THEN LET parts == Split(resp.setCookie, ";")
         IN  [done |-> FALSE, ret |-> DoRet(<<>>, NoErr),
              cookie |-> IF c = <<>> THEN parts[1] ELSE c,
              r |-> [r EXCEPT !.hasCookie = TRUE, !.cookieVal = parts[1],
                              !.payload = IF bodyRead THEN <<>> ELSE @]]
    ELSE [done |-> TRUE, ret |-> StatusCheck(resp), cookie |-> c, r |-> r]

\* FirstSend with the whole Set-Cookie value stored and sent, not its first segment.
FirstSendWholeHeader(r, resp, c, bodyRead) ==
    IF resp.kind = "err"
    THEN [done |-> TRUE, ret |-> DoRet(<<>>, Err(errDoRequest, "cause", 0)),
          cookie |-> c, r |-> r]
    ELSE IF resp.status = StatusTooManyRequests
    THEN [done |-> FALSE, ret |-> DoRet(<<>>, NoErr), cookie |-> resp.setCookie,
          r |-> [r EXCEPT !.hasCookie = TRUE, !.cookieVal = resp.setCookie,
                          !.payload = IF bodyRead THEN <<>> ELSE @]]
    ELSE [done |-> TRUE, ret |-> StatusCheck(resp), cookie |-> c, r |-> r]

\* do / doPost from the first call of the sender to either the return or the
\* resend: r is the request built, resp the sender's answer, c the stored
\* cookie and bodyRead whether the sender read r's body (a POST body is a
\* reader, and what was read is not there for a second send).
\*   done   - the operation returns ret without a second call
\*   cookie - the stored cookie afterwards
\*   r      - the request as it is handed to the sender the second time
FirstSend(r, resp, c, bodyRead) ==
    IF resp.kind = "err"
    THEN [done |-> TRUE, ret |-> DoRet(<<>>, Err(errDoRequest, "cause", 0)),
          cookie |-> c, r |-> r]
    ELSE IF resp.status = StatusTooManyRequests
    THEN LET parts == Split(resp.setCookie, ";")
         IN  IF Len(parts) > 0
             THEN [done |-> FALSE, ret |-> DoRet(<<>>, NoErr), cookie |-> parts[1],
                   r |-> [r EXCEPT !.hasCookie = TRUE, !.cookieVal = parts[1],
                                   !.payload = IF bodyRead THEN <<>> ELSE @]]
             ELSE [done |-> TRUE, ret |-> StatusCheck(resp), cookie |-> c, r |-> r]
    ELSE [done |-> TRUE, ret |-> StatusCheck(resp), cookie |-> c, r |-> r]

\* SecondSend that takes any answer of the resend for a success.
SecondSendNoCheck(resp) ==
    IF resp.kind = "err"
    THEN DoRet(<<>>, Err("", "cause", 0))
    ELSE DoRet(resp.body, NoErr)

\* do / doPost after the second call of the sender: the error of the resend
\* is returned as it is, and there is no further retry.
SecondSend(resp) ==
    IF resp.kind = "err"
    THEN DoRet(<<>>, Err("", "cause", 0))
    ELSE StatusCheck(resp)

-----------------------------------------------------------------------------
(* Response repair and decode.                                             *)

\* The trees the JSON documents decode to.
DocTree(d) ==
    CASE d = "J1" -> Tree("X", "1")
      [] d = "J3" -> Tree("Z", "2")
      [] d = "J2" -> Tree("Y", "US")

\* A decoder that accepts any text.
UnmarshalAnything(str, docs) == [err |-> NoErr, doc |-> "J1"]

\* client.unmarshal(str, dest): str must be exactly one JSON document, and a
\* document of docs (the ones whose fields have dest's types).
Unmarshal(str, docs) ==
    IF Len(str) = 1 /\ str[1] \in docs
    THEN [err |-> NoErr, doc |-> str[1]]
    ELSE [err |-> Err(errParsing, "json", 0), doc |-> ""]

\* The sender's answers an operation is checked against.
DetailOps == {"InterestOverTime", "InterestByLocation", "Related"}
Answers(op) == IF op \in DetailOps \cup {"Explore"} THEN DetailResponses ELSE Responses

-----------------------------------------------------------------------------
(* Widgets.                                                                *)

\* Widget type identifiers (WidgetType constants).
IntOverTimeWidgetID == <<"T", "I", "M", "E", "S", "E", "R", "I", "E", "S">>
IntOverRegionID == <<"G", "E", "O", "_", "M", "A", "P">>
RelatedQueriesID == <<"R", "E", "L", "A", "T", "E", "D", "_", "Q", "U", "E", "R", "I", "E", "S">>
RelatedTopicsID == <<"R", "E", "L", "A", "T", "E", "D", "_", "T", "O", "P", "I", "C", "S">>
WidgetTypes == {IntOverTimeWidgetID, IntOverRegionID, RelatedQueriesID, RelatedTopicsID}
compareDataMode == "PERCENTAGES"

\* The decimal digits of n (n < 100), as fmt prints them.
Digit(d) == <<"0", "1", "2", "3", "4", "5", "6", "7", "8", "9">>[d + 1]
Decimal(n) == IF n < 10 THEN <<Digit(n)>> ELSE <<Digit(n \div 10), Digit(n % 10)>>

\* The identifier "{WIDGET_TYPE}_{INDEX}".
WithOrder(t, n) == t \o <<"_">> \o Decimal(n)

\* A map[string]string: the nil map, or its set of key/value pairs.
NilMap == [isNil |-> TRUE, kv |-> {}]
EmptyMap == [isNil |-> FALSE, kv |-> {}]
BlankMap == [isNil |-> FALSE, kv |-> {<<"", "">>}]
USMap == [isNil |-> FALSE, kv |-> {<<"country", "US">>}]
MapLen(m) == Cardinality(m.kv)

\* A *WidgetComparisonItem of CompItem, and the nil pointer.
Item(geo) == [isNil |-> FALSE, Geo |-> geo]
NilItem == [isNil |-> TRUE, Geo |-> NilMap]

\* A *WidgetResponse (the widget's sub-request), and the nil pointer.
WidgetRequest(items, restrictionGeo, mode) ==
    [isNil |-> FALSE, CompItem |-> items, Restriction |-> [Geo |-> restrictionGeo],
     DataMode |-> mode]
NilRequest ==
    [isNil |-> TRUE, CompItem |-> <<>>, Restriction |-> [Geo |-> NilMap], DataMode |-> ""]

\* An ExploreWidget.
Widget(token, id, req) == [Token |-> token, ID |-> id, Request |-> req]
NoWidget == Widget("", <<>>, NilRequest)

\* json.Marshal of a geo map tagged omitempty: left out when it has no entry.
MarshalGeo(m) == IF MapLen(m) = 0 THEN [present |-> FALSE, kv |-> {}]
                 ELSE [present |-> TRUE, kv |-> m.kv]

\* json.Marshal(w.Request): the comparison items (null for a nil pointer),
\* the restriction and the data mode, which is left out when empty.
MarshalRequest(req) ==
    [comparisonItem |-> [i \in 1..Len(req.CompItem) |->
                            IF req.CompItem[i].isNil
                            THEN [null |-> TRUE, geo |-> MarshalGeo(NilMap)]
                            ELSE [null |-> FALSE, geo |-> MarshalGeo(req.CompItem[i].Geo)]],
     restriction |-> [geo |-> MarshalGeo(req.Restriction.Geo)],
     dataMode |-> IF req.DataMode = "" THEN <<>> ELSE <<req.DataMode>>]

\* The precondition left out: every widget passes.
HasWidgetTypeUnchecked(id, t) == TRUE

\* The precondition of a detail operation: the identifier starts with the type.
HasWidgetType(id, t) == HasPrefix(id, t)

-----------------------------------------------------------------------------
(* Client state and what an operation leaves behind.                       *)

\* A ComparisonItem, an ExploreRequest, and the nil *ExploreRequest.
ComparisonItem(keyword, geo, time) ==
    [Keyword |-> keyword, Geo |-> geo, Time |-> time,
     GranularTimeResolution |-> FALSE, StartTime |-> <<>>, EndTime |-> <<>>]
ExploreRequest(items, category, property) ==
    [isNil |-> FALSE, ComparisonItems |-> items, Category |-> category,
     Property |-> property]
NoExploreRequest ==
    [isNil |-> TRUE, ComparisonItems |-> <<>>, Category |-> 0, Property |-> <<>>]

\* Endpoints (gAPI + path) and the prefix tokens stripped from their bodies.
gSCategories == "/explore/pickers/category"
gSGeo == "/explore/pickers/geo"
gBatchExecute == "/_/TrendsUi/data/batchexecute"
gSRelated == "/widgetdata/relatedsearches"
gSIntOverTime == "/widgetdata/multiline"
gSIntOverReg == "/widgetdata/comparedgeo"
testURL == "https://example.com/test"
InvalidPrefix == <<"PFX">>
InvalidPrefixComma == <<"PFX", ",">>

\* A URL: its path, and the token and req query parameters (<<>>: not set).
URL(path, token, req) == [path |-> path, token |-> token, req |-> req]

NoRequest == Request("", URL("", <<>>, <<>>), FALSE, <<>>, <<>>)
NoCur == [op |-> "", r |-> NoRequest]

\* What an operation returned: body for do / doPost, tree for the cached
\* operations, err for all.
RetVal(op, body, err, tree) ==
    [op |-> op, body |-> body, err |-> err, tree |-> tree, data |-> ""]
NoRet == RetVal("", <<>>, NoErr, NilTree)

Snapshot ==
    [cookie |-> cookie, exploreCats |-> exploreCats, exploreLocs |-> exploreLocs, w |-> w,
     exploreReq |-> exploreReq]

\* The rest of an operation once do / doPost has returned dr: the value
\* returned and the cache slots afterwards.
Continue(op, dr) ==
    LET keep(rv) == [ret |-> rv, cats |-> exploreCats, locs |-> exploreLocs]
    IN  CASE op \in {"do", "doPost"} ->
               keep(RetVal(op, dr.body, dr.err, NilTree))
          [] op = "ExploreCategories" ->
               IF dr.err # NoErr THEN keep(RetVal(op, <<>>, dr.err, NilTree))
               ELSE LET u == Unmarshal(ReplaceFirst(dr.body, InvalidPrefix), CatDocs)
                    IN  IF u.err # NoErr THEN keep(RetVal(op, <<>>, u.err, NilTree))
                        ELSE [ret |-> RetVal(op, <<>>, NoErr, DocTree(u.doc)),
                              cats |-> DocTree(u.doc), locs |-> exploreLocs]
          [] op = "ExploreLocations" ->
               IF dr.err # NoErr THEN keep(RetVal(op, <<>>, dr.err, NilTree))
               ELSE LET u == Unmarshal(ReplaceFirst(dr.body, InvalidPrefix), LocDocs)
                    IN  IF u.err # NoErr THEN keep(RetVal(op, <<>>, u.err, NilTree))
                        ELSE [ret |-> RetVal(op, <<>>, NoErr, DocTree(u.doc)),
                              cats |-> exploreCats, locs |-> DocTree(u.doc)]
          [] op = "Explore" ->
               IF dr.err # NoErr THEN keep(RetVal(op, <<>>, dr.err, NilTree))
               ELSE LET u == Unmarshal(ReplaceFirst(dr.body, InvalidPrefix), Docs)
                    IN  IF u.err # NoErr THEN keep(RetVal(op, <<>>, u.err, NilTree))
                        ELSE keep([RetVal(op, <<>>, NoErr, NilTree) EXCEPT !.data = u.doc])
          [] op \in DetailOps \cup {"Search"} ->
               IF dr.err # NoErr THEN keep(RetVal(op, <<>>, dr.err, NilTree))
               ELSE LET u == Unmarshal(ReplaceFirst(dr.body, InvalidPrefixComma), Docs)
                    IN  IF u.err # NoErr THEN keep(RetVal(op, <<>>, u.err, NilTree))
                        ELSE keep([RetVal(op, <<>>, NoErr, NilTree) EXCEPT !.data = u.doc])

\* The operation returns: its continuation runs and the client is idle again.
Return(op, dr) ==
    LET k == Continue(op, dr)
    IN  /\ ret' = k.ret
        /\ exploreCats' = k.cats
        /\ exploreLocs' = k.locs
        /\ pc' = "idle"
        /\ cur' = NoCur

\* An operation builds r, calls the sender once and either returns or is
\* left waiting to resend.
Send(op, r) ==
    \E resp \in Answers(op), bodyRead \in (IF r.method = "POST" THEN BOOLEAN ELSE {FALSE}) :
        LET fs == FirstSend(r, resp, cookie, bodyRead)
        IN  /\ calls' = <<[r |-> r, resp |-> resp]>>
            /\ cookie' = fs.cookie
            /\ snap' = Snapshot
            /\ IF fs.done
               THEN Return(op, fs.ret)
               ELSE /\ pc' = "resend"
                    /\ cur' = [op |-> op, r |-> fs.r]
                    /\ ret' = RetVal(op, <<>>, NoErr, NilTree)
                    /\ UNCHANGED <<exploreCats, exploreLocs>>

\* The second call of the sender, after a 429, and the return that follows.
Resend ==
    /\ pc = "resend"
    /\ \E resp \in Answers(cur.op) :
        /\ calls' = Append(calls, [r |-> cur.r, resp |-> resp])
        /\ Return(cur.op, SecondSend(resp))
    /\ UNCHANGED <<cookie, snap, otherVars>>

\* c.do(ctx, u) on its own.
Do ==
    /\ pc = "idle"
    /\ Send("do", NewRequest("GET", URL(testURL, <<>>, <<>>), <<>>, cookie))
    /\ UNCHANGED otherVars

\* c.doPost(ctx, u, payload) on its own.
DoPost ==
    /\ pc = "idle"
    /\ Send("doPost", NewRequest("POST", URL(testURL, <<>>, <<>>), <<"payload">>, cookie))
    /\ UNCHANGED otherVars

\* A warm cache slot answers without a request.
ReturnCached(op, tree) ==
    /\ ret' = RetVal(op, <<>>, NoErr, tree)
    /\ calls' = <<>>
    /\ snap' = Snapshot
    /\ UNCHANGED <<cookie, exploreCats, exploreLocs, pc, cur>>

\* ExploreCategories that fetches without looking at the cache slot.
ExploreCategoriesNoCache ==
    /\ pc = "idle"
    /\ Send("ExploreCategories",
            NewRequest("GET", URL(gSCategories, <<>>, <<>>), <<>>, cookie))
    /\ UNCHANGED otherVars

ExploreCategories ==
    /\ pc = "idle"
    /\ IF ~exploreCats.isNil
       THEN ReturnCached("ExploreCategories", exploreCats)
       ELSE Send("ExploreCategories",
                 NewRequest("GET", URL(gSCategories, <<>>, <<>>), <<>>, cookie))
    /\ UNCHANGED otherVars

ExploreLocations ==
    /\ pc = "idle"
    /\ IF ~exploreLocs.isNil
       THEN ReturnCached("ExploreLocations", exploreLocs)
       ELSE Send("ExploreLocations",
                 NewRequest("GET", URL(gSGeo, <<>>, <<>>), <<>>, cookie))
    /\ UNCHANGED otherVars

\* An operation returns before it builds a request.
ReturnLocal(op, err) ==
    /\ ret' = RetVal(op, <<>>, err, NilTree)
    /\ calls' = <<>>
    /\ snap' = Snapshot
    /\ UNCHANGED <<cookie, exploreCats, exploreLocs, pc, cur>>

\* A nil pointer is dereferenced, or a nil map written: the goroutine panics.
Panic(op) ==
    /\ pc' = "panicked"
    /\ ret' = RetVal(op, <<>>, NoErr, NilTree)
    /\ calls' = <<>>
    /\ snap' = Snapshot
    /\ UNCHANGED <<cookie, exploreCats, exploreLocs, cur>>

\* The loop leaving every item as it is.
NormalizeNoItem(req) == req

\* InterestOverTime's loop over w.Request.CompItem: an item that is not nil
\* and has no geo entry gets the map {"": ""}.
NormalizeCompItems(req) ==
    [req EXCEPT !.CompItem =
        [i \in 1..Len(req.CompItem) |->
            IF ~req.CompItem[i].isNil /\ MapLen(req.CompItem[i].Geo) = 0
            THEN [req.CompItem[i] EXCEPT !.Geo = BlankMap]
            ELSE req.CompItem[i]]]

InterestOverTime ==
    /\ pc = "idle"
    /\ IF ~HasWidgetType(w.ID, IntOverTimeWidgetID)
       THEN ReturnLocal("InterestOverTime", ErrInvalidWidgetType) /\ UNCHANGED w
       ELSE IF w.Request.isNil
       THEN Panic("InterestOverTime") /\ UNCHANGED w
       ELSE LET req == NormalizeCompItems(w.Request)
            IN  /\ w' = [w EXCEPT !.Request = req]
                /\ Send("InterestOverTime",
                        NewRequest("GET", URL(gSIntOverTime, <<w.Token>>, <<MarshalRequest(req)>>),
                                   <<>>, cookie))
    /\ UNCHANGED <<extractVars, widgetVars, concVars, exploreReq>>

\* InterestByLocation that leaves the data mode as it is.
InterestByLocationKeepMode ==
    /\ pc = "idle"
    /\ IF ~HasWidgetType(w.ID, IntOverRegionID)
       THEN ReturnLocal("InterestByLocation", ErrInvalidWidgetType) /\ UNCHANGED w
       ELSE IF w.Request.isNil
       THEN Panic("InterestByLocation") /\ UNCHANGED w
       ELSE /\ UNCHANGED w
            /\ Send("InterestByLocation",
                    NewRequest("GET", URL(gSIntOverReg, <<w.Token>>, <<MarshalRequest(w.Request)>>),
                               <<>>, cookie))
    /\ UNCHANGED <<extractVars, widgetVars, concVars, exploreReq>>

InterestByLocation ==
    /\ pc = "idle"
    /\ IF ~HasWidgetType(w.ID, IntOverRegionID)
       THEN ReturnLocal("InterestByLocation", ErrInvalidWidgetType) /\ UNCHANGED w
       ELSE IF w.Request.isNil
       THEN Panic("InterestByLocation") /\ UNCHANGED w
       ELSE LET req == IF Len(w.Request.CompItem) > 1
                       THEN [w.Request EXCEPT !.DataMode = compareDataMode]
                       ELSE w.Request
            IN  /\ w' = [w EXCEPT !.Request = req]
                /\ Send("InterestByLocation",
                        NewRequest("GET", URL(gSIntOverReg, <<w.Token>>, <<MarshalRequest(req)>>),
                                   <<>>, cookie))
    /\ UNCHANGED <<extractVars, widgetVars, concVars, exploreReq>>

Related ==
    /\ pc = "idle"
    /\ IF ~HasWidgetType(w.ID, RelatedQueriesID) /\ ~HasWidgetType(w.ID, RelatedTopicsID)
       THEN ReturnLocal("Related", ErrInvalidWidgetType) /\ UNCHANGED w
       ELSE IF w.Request.isNil
                \/ (MapLen(w.Request.Restriction.Geo) = 0 /\ w.Request.Restriction.Geo.isNil)
       THEN Panic("Related") /\ UNCHANGED w
       ELSE LET req == IF MapLen(w.Request.Restriction.Geo) = 0
                       THEN [w.Request EXCEPT !.Restriction.Geo = BlankMap]
                       ELSE w.Request
            IN  /\ w' = [w EXCEPT !.Request = req]
                /\ Send("Related",
                        NewRequest("GET", URL(gSRelated, <<w.Token>>, <<MarshalRequest(req)>>),
                                   <<>>, cookie))
    /\ UNCHANGED <<extractVars, widgetVars, concVars, exploreReq>>

InitClient ==
    /\ cookie = <<>>
    /\ exploreCats = NilTree
    /\ exploreLocs = NilTree
    /\ pc = "idle"
    /\ cur = NoCur
    /\ calls = <<>>
    /\ ret = NoRet
    /\ snap = Snapshot

InitExtractIdle ==
    /\ text = <<>>
    /\ lines = <<>>
    /\ result = <<>>

InitWidgetsIdle ==
    /\ e = <<>>
    /\ e0 = <<>>
    /\ out = <<>>

\* No concurrent caller: the locks are free and nothing has been written.
Unlocked == [writer |-> 0, readers |-> {}]
InitConcIdle ==
    /\ proc = <<>>
    /\ lock = [cm |-> Unlocked, lm |-> Unlocked]
    /\ writes = [cm |-> <<>>, lm |-> <<>>]

\* No descriptor is held.
InitExploreIdle == exploreReq = NoExploreRequest

Init ==
    /\ w = NoWidget /\ InitExploreIdle
    /\ InitClient /\ InitExtractIdle /\ InitWidgetsIdle /\ InitConcIdle

Next ==
    \/ Do
    \/ DoPost
    \/ ExploreCategories
    \/ ExploreLocations
    \/ Resend

Spec == Init /\ [][Next]_vars

-----------------------------------------------------------------------------
(* Properties of the transport and of the cache (specification Spec).      *)

-----------------------------------------------------------------------------
(* The detail operations on one widget (specification SpecDetail).         *)

-----------------------------------------------------------------------------
(* Response repair and decode on its own: what each endpoint makes of a    *)
(* body that do has returned.                                              *)

RepairOps ==
    {"ExploreCategories", "ExploreLocations", "Explore", "Search"} \cup DetailOps

\* The bodies: a document bare, behind one or two tokens )]}' , behind one
\* or two tokens )]}', , and text that is no JSON.
RepairBodies ==
    {<<"X">>} \cup
    UNION {{<<d>>, <<"PFX", d>>, <<"PFX", ",", d>>, <<"PFX", "PFX", d>>,
            <<"PFX", ",", "PFX", ",", d>>} : d \in Docs}

\* The statements of an endpoint that follow a successful client.do.
Decode ==
    /\ pc = "idle"
    /\ \E op \in RepairOps, b \in RepairBodies :
        /\ op = "ExploreCategories" => exploreCats.isNil
        /\ op = "ExploreLocations" => exploreLocs.isNil
        /\ calls' = <<[r |-> NoRequest, resp |-> Response(StatusOK, <<>>, b)]>>
        /\ snap' = Snapshot
        /\ Return(op, DoRet(b, NoErr))
    /\ UNCHANGED <<cookie, otherVars>>

NextRepair == Decode

SpecRepair == Init /\ [][NextRepair]_vars

-----------------------------------------------------------------------------
(* Concurrent callers of ExploreCategories and ExploreLocations.  Each of   *)
(* NumProcs callers runs one operation; a step is a lock operation, the    *)
(* access made under the lock, or one call of the sender.                  *)

NumProcs == 2

Procs == 1..NumProcs
ConcOps == {"ExploreCategories", "ExploreLocations"}
SlotOf(op) == IF op = "ExploreCategories" THEN "cm" ELSE "lm"
SlotVal(sl) == IF sl = "cm" THEN exploreCats ELSE exploreLocs
PathOf(op) == IF op = "ExploreCategories" THEN gSCategories ELSE gSGeo

\* What the sender may answer to a concurrent caller.
ConcAnswers ==
    {TransportErr,
     Response(StatusTooManyRequests, <<"a">>, <<>>),
     Response(StatusOK, <<>>, <<"PFX", "J1">>),
     Response(StatusOK, <<>>, <<"PFX", "J3">>),
     Response(StatusOK, <<>>, <<"PFX", "J2">>)}

\* A caller: its operation, its position, the value its read returned
\* (cats / locs), the tree it decoded (out), the request it holds, the
\* answer it has not yet looked at, the answers it received and what it
\* returned.
Caller(op) ==
    [op |-> op, pc |-> "start", local |-> NilTree, out |-> NilTree, r |-> NoRequest,
     pending |-> TransportErr, answers |-> <<>>, err |-> NoErr, tree |-> NilTree]

InitConcurrent ==
    /\ w = NoWidget /\ InitExploreIdle /\ InitClient /\ InitExtractIdle /\ InitWidgetsIdle
    /\ proc \in [Procs -> {Caller(op) : op \in ConcOps}]
    /\ lock = [cm |-> Unlocked, lm |-> Unlocked]
    /\ writes = [cm |-> <<>>, lm |-> <<>>]

At(p, l) == proc[p].pc = l
Sl(p) == SlotOf(proc[p].op)
ConcFrame == UNCHANGED <<pc, cur, calls, ret, snap, w, extractVars, widgetVars, exploreReq>>

\* A read of the slot that misses its content.
LoadNil(v) == NilTree

\* What a read of the slot gives.
Load(v) == v

\* What the slot holds after new is written over old.
Store(old, new) == new

\* RLock that does not wait for the writer.
RLockNoWait(p) ==
    /\ At(p, "start")
    /\ lock' = [lock EXCEPT ![Sl(p)].readers = @ \cup {p}]
    /\ proc' = [proc EXCEPT ![p].pc = "rlocked"]
    /\ UNCHANGED <<cookie, exploreCats, exploreLocs, writes>> /\ ConcFrame

\* c.cm.RLock() / c.lm.RLock() in getCategories / getLocations.
RLock(p) ==
    /\ At(p, "start")
    /\ lock[Sl(p)].writer = 0
    /\ lock' = [lock EXCEPT ![Sl(p)].readers = @ \cup {p}]
    /\ proc' = [proc EXCEPT ![p].pc = "rlocked"]
    /\ UNCHANGED <<cookie, exploreCats, exploreLocs, writes>> /\ ConcFrame

\* return c.exploreCats / c.exploreLocs: the value is read under the lock.
ReadSlot(p) ==
    /\ At(p, "rlocked")
    /\ proc' = [proc EXCEPT ![p].pc = "runlock", ![p].local = Load(SlotVal(Sl(p)))]
    /\ UNCHANGED <<cookie, exploreCats, exploreLocs, lock, writes>> /\ ConcFrame

\* The read lock kept over the fetch.
RUnlockAfterFetch(p) ==
    /\ At(p, "runlock")
    /\ lock' = IF proc[p].local.isNil THEN lock
               ELSE [lock EXCEPT ![Sl(p)].readers = @ \ {p}]
    /\ proc' = IF proc[p].local.isNil
               THEN [proc EXCEPT ![p].pc = "fetch"]
               ELSE [proc EXCEPT ![p].pc = "done", ![p].tree = proc[p].local]
    /\ UNCHANGED <<cookie, exploreCats, exploreLocs, writes>> /\ ConcFrame

\* The deferred RUnlock, and the test of the value read: a tree is returned
\* at once, nil goes on to the fetch.
RUnlock(p) ==
    /\ At(p, "runlock")
    /\ lock' = [lock EXCEPT ![Sl(p)].readers = @ \ {p}]
    /\ proc' = IF proc[p].local.isNil
               THEN [proc EXCEPT ![p].pc = "fetch"]
               ELSE [proc EXCEPT ![p].pc = "done", ![p].tree = proc[p].local]
    /\ UNCHANGED <<cookie, exploreCats, exploreLocs, writes>> /\ ConcFrame

\* After client.do has returned dr: repair, decode, and on to the store.
AfterDo(p, dr, resp, r) ==
    LET k == Continue(proc[p].op, dr).ret
        q == [proc[p] EXCEPT !.answers = Append(@, resp), !.r = r]
    IN  proc' = [proc EXCEPT ![p] =
                    IF k.err # NoErr THEN [q EXCEPT !.pc = "done", !.err = k.err]
                    ELSE [q EXCEPT !.pc = "store", !.out = k.tree]]

\* c.cookie is read and written without synchronisation.  A caller that has
\* been answered 429 is about to write it; a read by another caller at that
\* time races with the write.
Racing(p) ==
    \E q \in Procs \ {p} :
        At(q, "answered") /\ proc[q].pending.status = StatusTooManyRequests

\* client.do from its start to the sender's answer: the request is built
\* (c.cookie is read for the Cookie header) and sent.  A read of c.cookie
\* that races with a write gives the stored value or a torn string (the
\* pointer of one value with the length of the other), and the use of a
\* torn string crashes the caller.
Fetch(p) ==
    /\ At(p, "fetch")
    /\ \/ \E resp \in ConcAnswers :
            proc' = [proc EXCEPT
                        ![p].pc = "answered",
                        ![p].r = NewRequest("GET", URL(PathOf(proc[p].op), <<>>, <<>>),
                                            <<>>, cookie),
                        ![p].pending = resp]
       \/ Racing(p) /\ proc' = [proc EXCEPT ![p].pc = "crashed"]
    /\ UNCHANGED <<cookie, exploreCats, exploreLocs, lock, writes>> /\ ConcFrame

\* client.do from the sender's answer to its return or to the resend: on a
\* 429 c.cookie is written.
Receive(p) ==
    /\ At(p, "answered")
    /\ LET fs == FirstSend(proc[p].r, proc[p].pending, cookie, FALSE)
       IN  /\ cookie' = fs.cookie
           /\ IF fs.done THEN AfterDo(p, fs.ret, proc[p].pending, proc[p].r)
              ELSE proc' = [proc EXCEPT ![p].pc = "resend", ![p].r = fs.r,
                                         ![p].answers = Append(@, proc[p].pending)]
    /\ UNCHANGED <<exploreCats, exploreLocs, lock, writes>> /\ ConcFrame

\* The resend of client.do and its return.
Refetch(p) ==
    /\ At(p, "resend")
    /\ \E resp \in ConcAnswers : AfterDo(p, SecondSend(resp), resp, proc[p].r)
    /\ UNCHANGED <<cookie, exploreCats, exploreLocs, lock, writes>> /\ ConcFrame

\* c.cm.Lock() / c.lm.Lock() in setCategories / setLocations.
Lock(p) ==
    /\ At(p, "store")
    /\ lock[Sl(p)] = Unlocked
    /\ lock' = [lock EXCEPT ![Sl(p)].writer = p]
    /\ proc' = [proc EXCEPT ![p].pc = "wlocked"]
    /\ UNCHANGED <<cookie, exploreCats, exploreLocs, writes>> /\ ConcFrame

\* The assignment reaching both slots.
WriteBothSlots(p) ==
    /\ At(p, "wlocked")
    /\ exploreCats' = proc[p].out
    /\ exploreLocs' = proc[p].out
    /\ writes' = [writes EXCEPT ![Sl(p)] = Append(@, proc[p].out)]
    /\ proc' = [proc EXCEPT ![p].pc = "unlock"]
    /\ UNCHANGED <<cookie, lock>> /\ ConcFrame

\* c.exploreCats = cats / c.exploreLocs = locs
WriteSlot(p) ==
    /\ At(p, "wlocked")
    /\ IF Sl(p) = "cm"
       THEN exploreCats' = Store(exploreCats, proc[p].out) /\ UNCHANGED exploreLocs
       ELSE exploreLocs' = Store(exploreLocs, proc[p].out) /\ UNCHANGED exploreCats
    /\ writes' = [writes EXCEPT ![Sl(p)] = Append(@, proc[p].out)]
    /\ proc' = [proc EXCEPT ![p].pc = "unlock"]
    /\ UNCHANGED <<cookie, lock>> /\ ConcFrame

\* The deferred Unlock, and the return of the tree just stored.
Unlock(p) ==
    /\ At(p, "unlock")
    /\ lock' = [lock EXCEPT ![Sl(p)].writer = 0]
    /\ proc' = [proc EXCEPT ![p].pc = "done", ![p].tree = proc[p].out]
    /\ UNCHANGED <<cookie, exploreCats, exploreLocs, writes>> /\ ConcFrame

\* One step of the caller p.
CallerStep(p) ==
    \/ RLock(p)
    \/ ReadSlot(p)
    \/ RUnlock(p)
    \/ Fetch(p)
    \/ Receive(p)
    \/ Refetch(p)
    \/ Lock(p)
    \/ WriteSlot(p)
    \/ Unlock(p)

NextConcurrent == \E p \in Procs : CallerStep(p)

SpecConcurrent == InitConcurrent /\ [][NextConcurrent]_vars

\* The callers are goroutines: one that can take a step is scheduled in the
\* end, and a call of the sender returns in the end.
SpecConcurrentFair == SpecConcurrent /\ \A p \in Procs : WF_vars(CallerStep(p))

-----------------------------------------------------------------------------
(* Explore and the req parameter.                                          *)

gSExplore == "/explore"

\* strings.ReplaceAll(s, old, new) for one-character old and new.
ReplaceAll(s, old, new) == [i \in 1..Len(s) |-> IF s[i] = old THEN new ELSE s[i]]

\* json.Marshal of the text of a string: the quote and the backslash get a
\* backslash, and & (like < and >) becomes its six-character \u escape.
RECURSIVE JSONEscape(_)
JSONEscape(s) ==
    IF s = <<>> THEN <<>>
    ELSE (CASE Head(s) = "\"" -> <<"\\", "\"">>
            [] Head(s) = "\\" -> <<"\\", "\\">>
            [] Head(s) = "&" -> <<"\\", "u", "0", "0", "2", "6">>
            [] OTHER -> <<Head(s)>>) \o JSONEscape(Tail(s))

\* json.Unmarshal of the text of a string.
RECURSIVE JSONUnescape(_)
JSONUnescape(s) ==
    IF s = <<>> THEN <<>>
    ELSE IF Head(s) = "\\" /\ Len(s) >= 2
    THEN IF s[2] = "u" /\ Len(s) >= 6
         THEN <<(IF SubSeq(s, 3, 6) = <<"0", "0", "2", "6">> THEN "&" ELSE "?")>>
                  \o JSONUnescape(SubSeq(s, 7, Len(s)))
         ELSE <<s[2]>> \o JSONUnescape(SubSeq(s, 3, Len(s)))
    ELSE <<Head(s)>> \o JSONUnescape(Tail(s))

\* An escape that leaves the plus sign as it is.
RECURSIVE QueryEscapeKeepPlus(_)
QueryEscapeKeepPlus(s) ==
    IF s = <<>> THEN <<>>
    ELSE (CASE Head(s) = " " -> <<"+">>
            [] Head(s) = "&" -> <<"%", "2", "6">>
            [] Head(s) = "\"" -> <<"%", "2", "2">>
            [] Head(s) = "\\" -> <<"%", "5", "C">>
            [] OTHER -> <<Head(s)>>) \o QueryEscapeKeepPlus(Tail(s))

\* url.QueryEscape, applied by p.Encode() to the value of a parameter: a
\* space becomes +, and +, &, the quote and the backslash become %XX.
RECURSIVE QueryEscape(_)
QueryEscape(s) ==
    IF s = <<>> THEN <<>>
    ELSE (CASE Head(s) = " " -> <<"+">>
            [] Head(s) = "+" -> <<"%", "2", "B">>
            [] Head(s) = "&" -> <<"%", "2", "6">>
            [] Head(s) = "\"" -> <<"%", "2", "2">>
            [] Head(s) = "\\" -> <<"%", "5", "C">>
            [] OTHER -> <<Head(s)>>) \o QueryEscape(Tail(s))

\* url.QueryUnescape, applied by the reader of the query string.
RECURSIVE QueryUnescape(_)
QueryUnescape(s) ==
    IF s = <<>> THEN <<>>
    ELSE IF Head(s) = "%" /\ Len(s) >= 3
    THEN <<(CASE SubSeq(s, 2, 3) = <<"2", "B">> -> "+"
              [] SubSeq(s, 2, 3) = <<"2", "6">> -> "&"
              [] SubSeq(s, 2, 3) = <<"2", "2">> -> "\""
              [] SubSeq(s, 2, 3) = <<"5", "C">> -> "\\"
              [] OTHER -> "?")>> \o QueryUnescape(SubSeq(s, 4, Len(s)))
    ELSE <<(IF Head(s) = "+" THEN " " ELSE Head(s))>> \o QueryUnescape(Tail(s))

\* A JSON document of an ExploreRequest with f applied to the text of each
\* of its strings; the punctuation of the document is not spelled out.
MapStrings(doc, f(_)) ==
    [comparisonItem |->
        [i \in 1..Len(doc.comparisonItem) |->
            LET it == doc.comparisonItem[i]
            IN  [keyword |-> f(it.keyword),
                 geo |-> [present |-> it.geo.present, val |-> f(it.geo.val)],
                 time |-> f(it.time),
                 granularTimeResolution |-> it.granularTimeResolution,
                 startTime |-> f(it.startTime),
                 endTime |-> f(it.endTime)]],
     category |-> doc.category,
     property |-> f(doc.property)]

\* json.Marshal(r): every field under its json name, geo left out when it
\* is empty (omitempty).
MarshalExploreRequest(r) ==
    MapStrings(
        [comparisonItem |->
            [i \in 1..Len(r.ComparisonItems) |->
                LET it == r.ComparisonItems[i]
                IN  [keyword |-> it.Keyword,
                     geo |-> [present |-> it.Geo # <<>>, val |-> it.Geo],
                     time |-> it.Time,
                     granularTimeResolution |-> it.GranularTimeResolution,
                     startTime |-> it.StartTime,
                     endTime |-> it.EndTime]],
         category |-> r.Category,
         property |-> r.Property],
        JSONEscape)

\* p.Set(paramReq, mReq); u.RawQuery = p.Encode()
EncodeReq(doc) == [set |-> TRUE, val |-> MapStrings(doc, QueryEscape)]

\* The reader's side: the value of req in the query string, and
\* json.Unmarshal of it into an ExploreRequest (a field left out keeps its
\* zero value).
ParseReq(q) == MapStrings(q.val, QueryUnescape)
UnmarshalExploreRequest(doc) ==
    LET d == MapStrings(doc, JSONUnescape)
    IN  [isNil |-> FALSE,
         ComparisonItems |->
            [i \in 1..Len(d.comparisonItem) |->
                LET it == d.comparisonItem[i]
                IN  [Keyword |-> it.keyword,
                     Geo |-> IF it.geo.present THEN it.geo.val ELSE <<>>,
                     Time |-> it.time,
                     GranularTimeResolution |-> it.granularTimeResolution,
                     StartTime |-> it.startTime,
                     EndTime |-> it.endTime]],
         Category |-> d.category,
         Property |-> d.property]

\* The descriptors the caller may pass: one to MaxTerms comparison terms;
\* keywords and times with a space, a plus sign, an ampersand or a quote.
MaxTerms == 2
ComparisonItems ==
    {ComparisonItem(<<"a">>, <<>>, <<"a", " ", "1">>),
     ComparisonItem(<<"a">>, <<"U", "S">>, <<>>),
     ComparisonItem(<<"+", "&", "\"">>, <<"U", "S">>, <<"a", "+", "1">>),
     ComparisonItem(<<"\\", " ">>, <<>>, <<"+">>)}
ExploreRequests ==
    {ExploreRequest(items, c, <<>>) :
        items \in SeqsUpTo(ComparisonItems, MaxTerms) \ {<<>>}, c \in {0, 31}}

InitExplore ==
    /\ w = NoWidget
    /\ exploreReq \in ExploreRequests
    /\ InitClient /\ InitExtractIdle /\ InitWidgetsIdle /\ InitConcIdle

\* Explore(ctx, r, hl): the time of every comparison item of the caller's
\* descriptor is rewritten, the descriptor is marshalled into req, and the
\* request is sent.
Explore ==
    /\ pc = "idle"
    /\ LET r == [exploreReq EXCEPT !.ComparisonItems =
                    [i \in 1..Len(@) |->
                        [@[i] EXCEPT !.Time = ReplaceAll(@, "+", " ")]]]
       IN  /\ exploreReq' = r
           /\ Send("Explore",
                   NewRequest("GET",
                              URL(gSExplore, <<>>, EncodeReq(MarshalExploreRequest(r))),
                              <<>>, cookie))
    /\ UNCHANGED <<w, extractVars, widgetVars, concVars>>

NextExplore == Explore \/ Resend

SpecExplore == InitExplore /\ [][NextExplore]_vars

\* Most comparison items of a widget's sub-request.
MaxItems == 2

\* The widgets the caller may hold: every type, with and without order
\* suffix, over sub-requests whose items and restriction have a nil, an
\* empty or a set geo map.
DetailIDs ==
    {IntOverTimeWidgetID, IntOverRegionID, RelatedQueriesID, WithOrder(RelatedTopicsID, 1)}
DetailItems == {NilItem, Item(NilMap), Item(USMap)}
DetailRequests ==
    {NilRequest} \cup
    {WidgetRequest(items, g, mode) :
        items \in SeqsUpTo(DetailItems, MaxItems),
        g \in {NilMap, EmptyMap, USMap},
        mode \in {"", "TIME_SERIES"}}
DetailWidgets == {Widget("tok", id, req) : id \in DetailIDs, req \in DetailRequests}

InitDetail ==
    /\ w \in DetailWidgets
    /\ InitExploreIdle
    /\ cookie = <<>>
    /\ \E slots \in {<<NilTree, NilTree>>, <<Tree("X", "1"), Tree("Y", "US")>>} :
          exploreCats = slots[1] /\ exploreLocs = slots[2]
    /\ pc = "idle"
    /\ cur = NoCur
    /\ calls = <<>>
    /\ ret = NoRet
    /\ snap = Snapshot
    /\ InitExtractIdle
    /\ InitWidgetsIdle
    /\ InitConcIdle

NextDetail ==
    \/ InterestOverTime
    \/ InterestByLocation
    \/ Related
    \/ Resend

SpecDetail == InitDetail /\ [][NextDetail]_vars

\* id begins with the characters of t.
StartsWith(id, t) == Len(id) >= Len(t) /\ \A i \in 1..Len(t) : id[i] = t[i]

\* The widget types an operation accepts.
Accepted(op) ==
    CASE op = "InterestOverTime" -> {IntOverTimeWidgetID}
      [] op = "InterestByLocation" -> {IntOverRegionID}
      [] op = "Related" -> {RelatedQueriesID, RelatedTopicsID}

\* C6: a detail operation handed a widget whose identifier starts with none
\* of the types it accepts returns ErrInvalidWidgetType, calls the sender
\* not at all, and leaves the cookie, the cache slots and the widget as they
\* were.
C6_InvalidWidgetRejected ==
    \A op \in DetailOps :
        (ret.op = op /\ \A t \in Accepted(op) : ~StartsWith(snap.w.ID, t)) =>
            /\ pc = "idle"
            /\ ret.err = ErrInvalidWidgetType
            /\ ret.data = ""
            /\ calls = <<>>
            /\ cookie = snap.cookie
            /\ exploreCats = snap.exploreCats
            /\ exploreLocs = snap.exploreLocs
            /\ w = snap.w

\* C6 witness: Related rejects a GEO_MAP widget while a cookie is stored and
\* the cache slots are set.
C6_Witness ==
    /\ pc = "idle" /\ ret.op = "Related" /\ ret.err = ErrInvalidWidgetType
    /\ w.ID = IntOverRegionID
    /\ cookie # <<>> /\ ~exploreCats.isNil

-----------------------------------------------------------------------------
(* The batch-response extractor.                                           *)
(*                                                                         *)
(* A text is a sequence of elements: the characters [ ] , space and        *)
(* newline, the literals 1 and null, the letters of plain text, and string *)
(* literals, each holding the text it stands for.                          *)

Ch(c) == [c |-> c, s |-> <<>>]
Str(content) == [c |-> "str", s |-> content]
LB == Ch("[")
RB == Ch("]")
COMMA == Ch(",")
SP == Ch(" ")
NL == Ch("\n")
NUM == Ch("1")
NULL == Ch("null")

\* A decoded JSON value (interface{}): an array of values, a string, a
\* number or null.
JArr(items) == [t |-> "arr", items |-> items, str |-> <<>>]
JStr(content) == [t |-> "str", items |-> <<>>, str |-> content]
JNum == [t |-> "num", items |-> <<>>, str |-> <<>>]
JNull == [t |-> "null", items |-> <<>>, str |-> <<>>]

\* The decoder: the position after the white space at i, a value read at i,
\* and the elements of an array up to its closing bracket.
RECURSIVE SkipWS(_, _)
SkipWS(t, i) == IF i <= Len(t) /\ t[i] = SP THEN SkipWS(t, i + 1) ELSE i

ParseFail == [ok |-> FALSE, val |-> JNull, next |-> 0]
ParseOK(v, next) == [ok |-> TRUE, val |-> v, next |-> next]

RECURSIVE ParseValue(_, _), ParseElems(_, _, _)
ParseValue(t, i) ==
    LET j == SkipWS(t, i)
    IN  IF j > Len(t) THEN ParseFail
        ELSE IF t[j] = LB
        THEN LET k == SkipWS(t, j + 1)
             IN  IF k <= Len(t) /\ t[k] = RB THEN ParseOK(JArr(<<>>), k + 1)
                 ELSE ParseElems(t, j + 1, <<>>)
        ELSE IF t[j].c = "str" THEN ParseOK(JStr(t[j].s), j + 1)
        ELSE IF t[j] = NUM THEN ParseOK(JNum, j + 1)
        ELSE IF t[j] = NULL THEN ParseOK(JNull, j + 1)
        ELSE ParseFail
ParseElems(t, i, acc) ==
    LET p == ParseValue(t, i)
    IN  IF ~p.ok THEN ParseFail
        ELSE LET k == SkipWS(t, p.next)
             IN  IF k > Len(t) THEN ParseFail
                 ELSE IF t[k] = COMMA THEN ParseElems(t, k + 1, Append(acc, p.val))
                 ELSE IF t[k] = RB THEN ParseOK(JArr(Append(acc, p.val)), k + 1)
                 ELSE ParseFail

\* json.Unmarshal(text, &dest) with dest a []interface{}: the text must be
\* one JSON value and nothing else, and an array (null leaves dest empty).
UnmarshalArray(t) ==
    LET p == ParseValue(t, 1)
    IN  IF ~p.ok \/ SkipWS(t, p.next) <= Len(t) THEN [ok |-> FALSE, items |-> <<>>]
        ELSE IF p.val.t = "arr" THEN [ok |-> TRUE, items |-> p.val.items]
        ELSE IF p.val.t = "null" THEN [ok |-> TRUE, items |-> <<>>]
        ELSE [ok |-> FALSE, items |-> <<>>]

\* strings.TrimSpace
RECURSIVE TrimLeft(_), TrimRight(_)
TrimLeft(t) == IF Len(t) > 0 /\ t[1] \in {SP} THEN TrimLeft(Tail(t)) ELSE t
TrimRight(t) == IF Len(t) > 0 /\ t[Len(t)] \in {SP} THEN TrimRight(SubSeq(t, 1, Len(t) - 1)) ELSE t
TrimSpace(t) == TrimRight(TrimLeft(t))

\* The loop over items: the first element of every item that is a list
\* with at least one element, when that element is a string.
RECURSIVE TopicsPrepended(_)
TopicsPrepended(items) ==
    IF items = <<>> THEN <<>>
    ELSE LET item == Head(items)
         IN  TopicsPrepended(Tail(items)) \o
             (IF item.t = "arr" /\ Len(item.items) > 0 /\ item.items[1].t = "str"
              THEN <<item.items[1].str>> ELSE <<>>)

RECURSIVE Topics(_)
Topics(items) ==
    IF items = <<>> THEN <<>>
    ELSE LET item == Head(items)
         IN  (IF item.t = "arr" /\ Len(item.items) > 0 /\ item.items[1].t = "str"
              THEN <<item.items[1].str>> ELSE <<>>) \o Topics(Tail(items))

\* The closure run on one trimmed line: the parse error, if any, and result
\* as the closure leaves it.
ParseLine(trimmed, res) ==
    LET bad == [err |-> TRUE, result |-> res]
        good(r) == [err |-> FALSE, result |-> r]
        intermediate == UnmarshalArray(trimmed)
    IN  IF ~intermediate.ok THEN bad
        ELSE IF Len(intermediate.items) > 2
        THEN LET secondItem == intermediate.items[1]
             IN  IF secondItem.t # "arr" \/ Len(secondItem.items) < 3 THEN bad
                 ELSE IF secondItem.items[3].t # "str" THEN bad
                 ELSE LET data == UnmarshalArray(secondItem.items[3].str)
                      IN  IF ~data.ok THEN bad
                          ELSE IF Len(data.items) > 1
                          THEN IF data.items[2].t # "arr" THEN bad
                               ELSE good(res \o Topics(data.items[2].items))
                          ELSE good(res)
        ELSE good(res)

errNoValidJSON == "no valid JSON found in response"

\* The return after the loop: nil and the error.
NoValidJSONNilError == [result |-> <<>>, err |-> NoErr]
NoValidJSON == [result |-> <<>>, err |-> Err(errNoValidJSON, "nil", 0)]

\* The loop returning after the first line that parses, terms or not.
RECURSIVE ScanLinesReturnAtFirstParsed(_, _, _)
ScanLinesReturnAtFirstParsed(ls, i, res) ==
    IF i > Len(ls) THEN NoValidJSON
    ELSE LET trimmed == TrimSpace(ls[i])
         IN  IF HasPrefix(trimmed, <<LB>>) /\ HasSuffix(trimmed, <<RB>>)
             THEN LET p == ParseLine(trimmed, res)
                  IN  IF p.err THEN ScanLinesReturnAtFirstParsed(ls, i + 1, p.result)
                      ELSE [result |-> p.result, err |-> NoErr]
             ELSE ScanLinesReturnAtFirstParsed(ls, i + 1, res)

\* The loop going on after a line has yielded terms, to the last line.
RECURSIVE ScanLinesCollectAll(_, _, _)
ScanLinesCollectAll(ls, i, res) ==
    IF i > Len(ls)
    THEN IF Len(res) > 0 THEN [result |-> res, err |-> NoErr] ELSE NoValidJSON
    ELSE LET trimmed == TrimSpace(ls[i])
         IN  IF HasPrefix(trimmed, <<LB>>) /\ HasSuffix(trimmed, <<RB>>)
             THEN ScanLinesCollectAll(ls, i + 1, ParseLine(trimmed, res).result)
             ELSE ScanLinesCollectAll(ls, i + 1, res)

\* The loop with a parse error ending the scan instead of the line.
RECURSIVE ScanLinesStopAtError(_, _, _)
ScanLinesStopAtError(ls, i, res) ==
    IF i > Len(ls) THEN NoValidJSON
    ELSE LET trimmed == TrimSpace(ls[i])
         IN  IF HasPrefix(trimmed, <<LB>>) /\ HasSuffix(trimmed, <<RB>>)
             THEN LET p == ParseLine(trimmed, res)
                  IN  IF p.err THEN NoValidJSON
                      ELSE IF Len(p.result) > 0 THEN [result |-> p.result, err |-> NoErr]
                      ELSE ScanLinesStopAtError(ls, i + 1, p.result)
             ELSE ScanLinesStopAtError(ls, i + 1, res)

\* The loop over the lines from line i on, with result as accumulated.
RECURSIVE ScanLines(_, _, _)
ScanLines(ls, i, res) ==
    IF i > Len(ls) THEN NoValidJSON
    ELSE LET trimmed == TrimSpace(ls[i])
         IN  IF HasPrefix(trimmed, <<LB>>) /\ HasSuffix(trimmed, <<RB>>)
             THEN LET p == ParseLine(trimmed, res)
                  IN  IF p.err THEN ScanLines(ls, i + 1, p.result)
                      ELSE IF Len(p.result) > 0 THEN [result |-> p.result, err |-> NoErr]
                      ELSE ScanLines(ls, i + 1, p.result)
             ELSE ScanLines(ls, i + 1, res)

\* c.extractJSONFromResponse(text)
extractJSONFromResponse(t) == ScanLines(Split(t, NL), 1, <<>>)

-----------------------------------------------------------------------------
(* The extractor run on responses of up to MaxLines lines.  Every line is  *)
(* written from a description: a line of the nested shape with a given     *)
(* number of top-level elements and given terms, or a line that departs    *)
(* from the shape at one level.                                            *)

MaxLines == 2

G == <<Ch("g")>>
R == <<Ch("r")>>
TermLists == {<<>>, <<G>>, <<G, R>>, <<R, G>>, <<G, G>>}
TopLens == {1, 2, 3, 4}
OffShape == {"plain", "empty", "badjson", "emptyarr", "notarr", "short", "notstr",
             "badinner", "notlist", "innershort", "mixed"}

Line(k, top, terms, pad) == [k |-> k, top |-> top, terms |-> terms, pad |-> pad]
LineDescs ==
    {Line("shaped", top, ts, FALSE) : top \in TopLens, ts \in TermLists}
        \cup {Line("shaped", 3, <<R>>, TRUE)}
        \cup {Line(k, 0, <<>>, FALSE) : k \in OffShape}

\* The texts of a list of values, separated by commas.
RECURSIVE Commas(_)
Commas(ts) ==
    IF ts = <<>> THEN <<>>
    ELSE IF Len(ts) = 1 THEN ts[1]
    ELSE ts[1] \o <<COMMA>> \o Commas(Tail(ts))

Arr(ts) == <<LB>> \o Commas(ts) \o <<RB>>
ItemText(term) == Arr(<< <<Str(term)>>, <<NUM>> >>)
InnerText(terms) ==
    Arr(<< <<NULL>>, Arr([i \in 1..Len(terms) |-> ItemText(terms[i])]) >>)
Envelope(third) == Arr(<< <<Str(<<Ch("w")>>)>>, <<Str(<<Ch("i")>>)>>, third >>)
TopText(first, top) == Arr(<<first>> \o [i \in 1..(top - 1) |-> <<NUM>>])

Encode(d) ==
    CASE d.k = "shaped" ->
            LET t == TopText(Envelope(<<Str(InnerText(d.terms))>>), d.top)
            IN  IF d.pad THEN <<SP>> \o t \o <<SP, SP>> ELSE t
      [] d.k = "plain" -> <<Ch("x"), SP, Ch("x")>>
      [] d.k = "empty" -> <<>>
      [] d.k = "badjson" -> <<LB, COMMA, RB>>
      [] d.k = "emptyarr" -> <<LB, RB>>
      [] d.k = "notarr" -> Arr(<< <<NUM>>, <<NUM>>, <<NUM>> >>)
      [] d.k = "short" -> TopText(Arr(<< <<NUM>>, <<NUM>> >>), 3)
      [] d.k = "notstr" -> TopText(Envelope(<<NUM>>), 3)
      [] d.k = "badinner" -> TopText(Envelope(<<Str(<<Ch("x")>>)>>), 3)
      [] d.k = "notlist" -> TopText(Envelope(<<Str(Arr(<< <<NULL>>, <<NUM>> >>))>>), 3)
      [] d.k = "innershort" -> TopText(Envelope(<<Str(Arr(<< <<NULL>> >>))>>), 3)
      [] d.k = "mixed" ->
            TopText(Envelope(<<Str(Arr(<< <<NULL>>,
                Arr(<< <<NUM>>, Arr(<<>>), Arr(<< <<NUM>> >>), ItemText(G) >>) >>))>>), 3)

RECURSIVE JoinLines(_)
JoinLines(ds) ==
    IF ds = <<>> THEN <<>>
    ELSE IF Len(ds) = 1 THEN Encode(ds[1])
    ELSE Encode(ds[1]) \o <<NL>> \o JoinLines(Tail(ds))

NoResult == [done |-> FALSE, result |-> <<>>, err |-> NoErr]

InitExtract ==
    /\ w = NoWidget /\ InitExploreIdle /\ InitClient /\ InitWidgetsIdle /\ InitConcIdle
    /\ lines \in SeqsUpTo(LineDescs, MaxLines)
    /\ text = JoinLines(lines)
    /\ result = NoResult

ExtractJSON ==
    /\ ~result.done
    /\ LET x == extractJSONFromResponse(text)
       IN  result' = [done |-> TRUE, result |-> x.result, err |-> x.err]
    /\ UNCHANGED <<clientVars, w, text, lines, widgetVars, concVars, exploreReq>>

NextExtract == ExtractJSON

SpecExtract == InitExtract /\ [][NextExtract]_vars

-----------------------------------------------------------------------------
(* Widget collections: ExploreResponse, its ordering and its filters.      *)

MaxWidgets == 3

\* strings.LastIndex(s, c), 1-based; 0 when c does not occur (Go: -1).
LastIndex(s, c) ==
    LET hits == {i \in 1..Len(s) : s[i] = c}
    IN  IF hits = {} THEN 0 ELSE CHOOSE i \in hits : \A j \in hits : j <= i

\* strconv.ParseInt(s, 10, 32): an optional sign and at least one decimal
\* digit, the value within 32 bits; anything else is an error.
DigitVal(c) == CHOOSE d \in 0..9 : Digit(d) = c
IsDigit(c) == \E d \in 0..9 : Digit(d) = c
RECURSIVE Digits(_, _)
Digits(s, acc) == IF s = <<>> THEN acc ELSE Digits(Tail(s), 10 * acc + DigitVal(Head(s)))
ParseInt(s) ==
    LET signed == Len(s) > 0 /\ s[1] \in {"+", "-"}
        ds == IF signed THEN Tail(s) ELSE s
        neg == signed /\ s[1] = "-"
    IN  IF ds = <<>> \/ \E i \in 1..Len(ds) : ~IsDigit(ds[i])
        THEN [ok |-> FALSE, val |-> 0]
        ELSE LET v == IF neg THEN -Digits(ds, 0) ELSE Digits(ds, 0)
             IN  IF v < -2147483647 - 1 \/ v > 2147483647 THEN [ok |-> FALSE, val |-> 0]
                 ELSE [ok |-> TRUE, val |-> v]

\* e.Less(i, j)
Less(c, i, j) ==
    LET numI == LastIndex(c[i].ID, "_")
        numJ == LastIndex(c[j].ID, "_")
        valI == ParseInt(SubSeq(c[i].ID, numI + 1, Len(c[i].ID)))
        valJ == ParseInt(SubSeq(c[j].ID, numJ + 1, Len(c[j].ID)))
    IN  IF numI = 0 THEN TRUE
        ELSE IF numJ = 0 THEN FALSE
        ELSE IF ~valI.ok THEN TRUE
        ELSE IF ~valJ.ok THEN FALSE
        ELSE valI.val < valJ.val

\* e.Swap(i, j)
Swap(c, i, j) == [c EXCEPT ![i] = c[j], ![j] = c[i]]

\* sort.Sort on a collection of at most twelve elements: insertion sort,
\* moving the element at j down while it is Less than its predecessor.
RECURSIVE SiftDown(_, _), InsertionSort(_, _)
SiftDown(c, j) ==
    IF j > 1 /\ Less(c, j, j - 1) THEN SiftDown(Swap(c, j, j - 1), j - 1) ELSE c
InsertionSort(c, i) ==
    IF i > Len(c) THEN c ELSE InsertionSort(SiftDown(c, i), i + 1)

\* The loop of GetWidgetsByType over the widgets from position i on.
RECURSIVE WidgetsByTypeExact(_, _)
WidgetsByTypeExact(c, t) ==
    IF c = <<>> THEN <<>>
    ELSE (IF Head(c).ID = t THEN <<Head(c)>> ELSE <<>>) \o WidgetsByTypeExact(Tail(c), t)

RECURSIVE WidgetsByType(_, _)
WidgetsByType(c, t) ==
    IF c = <<>> THEN <<>>
    ELSE (IF Contains(Head(c).ID, t) THEN <<Head(c)>> ELSE <<>>) \o WidgetsByType(Tail(c), t)

\* The loop of GetWidgetsByOrder over the widgets of c, with out as
\* collected so far: a widget whose suffix does not parse ends the loop.
RECURSIVE WidgetsByOrder(_, _, _)
WidgetsByOrder(c, i, acc) ==
    IF c = <<>> THEN acc
    ELSE LET v == Head(c)
             ind == LastIndex(v.ID, "_")
             val == ParseInt(SubSeq(v.ID, ind + 1, Len(v.ID)))
         IN  IF v.ID = IntOverTimeWidgetID \/ v.ID = IntOverRegionID
             THEN WidgetsByOrder(Tail(c), i, acc)
             ELSE IF ~val.ok THEN acc
             ELSE WidgetsByOrder(Tail(c), i, IF val.val = i THEN Append(acc, v) ELSE acc)

\* The collections: up to MaxWidgets widgets, and the collection of
\* TestExploreResponseSort; the token of a widget tells its first position.
Orders == {0, 1, 2}
WidgetIDs ==
    WidgetTypes
        \cup {WithOrder(t, n) : t \in {RelatedQueriesID, RelatedTopicsID}, n \in Orders}
OrderArgs == Orders \cup {99}
Tokens == <<"t1", "t2", "t3", "t4", "t5", "t6">>
Collection(ids) == [i \in 1..Len(ids) |-> Widget(Tokens[i], ids[i], NilRequest)]
TestCollection ==
    Collection(<<WithOrder(RelatedQueriesID, 2), WithOrder(RelatedTopicsID, 0),
                 WithOrder(RelatedQueriesID, 1), IntOverTimeWidgetID, IntOverRegionID>>)
Collections == {Collection(ids) : ids \in SeqsUpTo(WidgetIDs, MaxWidgets)} \cup {TestCollection}

NoOut == [op |-> "", t |-> <<>>, i |-> 0, res |-> <<>>]

InitWidgets ==
    /\ w = NoWidget /\ InitExploreIdle /\ InitClient /\ InitExtractIdle /\ InitConcIdle
    /\ e \in Collections
    /\ e0 = e
    /\ out = NoOut

\* e.Sort(): e0 keeps the collection as it was at the call.
Sort ==
    /\ e0' = e
    /\ e' = InsertionSort(e, 2)
    /\ out' = [op |-> "Sort", t |-> <<>>, i |-> 0, res |-> <<>>]
    /\ UNCHANGED <<clientVars, w, extractVars, concVars, exploreReq>>

\* e.GetWidgetsByType(t)
GetWidgetsByType ==
    \E t \in WidgetTypes :
        /\ e0' = e
        /\ out' = [op |-> "GetWidgetsByType", t |-> t, i |-> 0, res |-> WidgetsByType(e, t)]
        /\ UNCHANGED <<clientVars, w, extractVars, e, concVars, exploreReq>>

\* e.GetWidgetsByOrder(i)
GetWidgetsByOrder ==
    \E i \in OrderArgs :
        /\ e0' = e
        /\ out' = [op |-> "GetWidgetsByOrder", t |-> <<>>, i |-> i,
                   res |-> WidgetsByOrder(e, i, <<>>)]
        /\ UNCHANGED <<clientVars, w, extractVars, e, concVars, exploreReq>>

NextWidgets == Sort \/ GetWidgetsByType \/ GetWidgetsByOrder

SpecWidgets == InitWidgets /\ [][NextWidgets]_vars

\* The first ';'-delimited segment of a header value: its longest prefix
\* that holds no ';'.
FirstSegment(h) ==
    LET semis == {i \in 1..Len(h) : h[i] = ";"}
    IN  IF semis = {} THEN h
        ELSE SubSeq(h, 1, (CHOOSE i \in semis : \A j \in semis : i <= j) - 1)

Returned == pc = "idle" /\ ret.op # ""
Answered(i, st) == Len(calls) >= i /\ calls[i].resp.kind = "resp" /\ calls[i].resp.status = st
Failed(i) == Len(calls) >= i /\ calls[i].resp.kind = "err"

\* C1: when the first call is answered 429 with a Set-Cookie header whose
\* first segment is s and the second call is answered 200, the operation
\* succeeds with the second answer's body, the sender was called exactly
\* twice, the second request carries Cookie: s, and the stored cookie is s.
\* An operation whose first call was answered 429 never returns before the
\* second call.
C1_RetryWithCookie ==
    /\ (Returned /\ Answered(1, StatusTooManyRequests)) => Len(calls) = 2
    /\ (Returned /\ Answered(1, StatusTooManyRequests) /\ Answered(2, StatusOK)) =>
          LET s == FirstSegment(calls[1].resp.setCookie)
          IN  /\ Len(calls) = 2
              /\ ret.op \in {"do", "doPost"} =>
                    (ret.err = NoErr /\ ret.body = calls[2].resp.body)
              /\ ret.err.wraps \notin {"cause", "ErrRequestFailed"}
              /\ calls[2].r.hasCookie /\ calls[2].r.cookieVal = s
              /\ cookie = s

\* C1 witness: a 429 whose Set-Cookie value has a second segment, then a 200.
C1_Witness ==
    /\ Returned /\ ret.op \in {"do", "doPost"}
    /\ Answered(1, StatusTooManyRequests) /\ Answered(2, StatusOK)
    /\ calls[1].resp.setCookie = <<"a", ";">>
    /\ cookie = <<"a">> /\ ret.body # <<>>

\* C2: a first answer whose status is neither 200 nor 429 fails the
\* operation with ErrRequestFailed carrying that status code, after exactly
\* one call; only a 429 leaves an operation waiting to resend.
C2_NoRetryForOtherStatus ==
    /\ pc = "resend" => Answered(1, StatusTooManyRequests)
    /\ (Returned /\ Len(calls) >= 1 /\ calls[1].resp.kind = "resp"
          /\ calls[1].resp.status \notin {StatusOK, StatusTooManyRequests}) =>
          /\ Len(calls) = 1
          /\ ret.err = ErrRequestFailed(calls[1].resp.status)
          /\ ret.err.code = StatusInternalServerError

\* C2 witness: a 500 answered to the first call.
C2_Witness ==
    /\ Returned /\ Answered(1, StatusInternalServerError)
    /\ ret.err.wraps = "ErrRequestFailed"

\* C3: an operation calls the sender at most twice, a second call follows
\* only a first answer of 429, and a second answer that is not 200 (a second
\* 429 too) ends the operation with ErrRequestFailed carrying the second
\* answer's status code.
C3_AtMostOneRetry ==
    /\ Len(calls) <= 2
    /\ Len(calls) = 2 => (pc = "idle" /\ Answered(1, StatusTooManyRequests))
    /\ \A st \in {StatusTooManyRequests, StatusInternalServerError} :
          (Returned /\ Answered(2, st)) =>
              (ret.err = ErrRequestFailed(st) /\ ret.body = <<>> /\ ret.tree = NilTree)

\* C3 witness: two 429 in a row.
C3_Witness ==
    /\ Returned /\ Answered(1, StatusTooManyRequests) /\ Answered(2, StatusTooManyRequests)
    /\ ret.err = ErrRequestFailed(StatusTooManyRequests)

\* C4 (as claimed): a transport failure of any send, the first or the resend,
\* ends the operation at once with the "failed to perform request" error
\* wrapping the cause, and without a body.
C4_TransportFailureWrapped ==
    /\ \A i \in 1..Len(calls) : Failed(i) => (i = Len(calls) /\ pc = "idle")
    /\ (Returned /\ Len(calls) >= 1 /\ Failed(Len(calls))) =>
          (ret.err = Err(errDoRequest, "cause", 0) /\ ret.body = <<>>)

\* C5: once a cache slot holds a tree it keeps that tree, and every call of
\* ExploreCategories (ExploreLocations) that begins with the slot set returns
\* the slot's tree without error and without calling the sender.
C5_CachedTreeReturned ==
    /\ ~snap.exploreCats.isNil => exploreCats = snap.exploreCats
    /\ ~snap.exploreLocs.isNil => exploreLocs = snap.exploreLocs
    /\ (Returned /\ ret.op = "ExploreCategories" /\ ~snap.exploreCats.isNil) =>
          (ret.tree = snap.exploreCats /\ ret.err = NoErr /\ calls = <<>>)
    /\ (Returned /\ ret.op = "ExploreLocations" /\ ~snap.exploreLocs.isNil) =>
          (ret.tree = snap.exploreLocs /\ ret.err = NoErr /\ calls = <<>>)

\* C5 witness: a call of ExploreCategories answered from the cache.
C5_Witness ==
    /\ Returned /\ ret.op = "ExploreCategories"
    /\ ~snap.exploreCats.isNil /\ ret.tree = Tree("Z", "2") /\ calls = <<>>

-----------------------------------------------------------------------------
(* Claims about the batch-response extractor, stated on the descriptions   *)
(* the response was written from.                                          *)

\* The terms a line of the nested shape carries, whatever the number of
\* elements of its top-level array.
ShapeTerms(d) ==
    IF d.k = "shaped" THEN d.terms
    ELSE IF d.k = "mixed" THEN <<G>>
    ELSE <<>>

\* The terms of a line whose top-level array has more than two elements.
LineTerms(d) == IF d.k = "shaped" /\ d.top < 3 THEN <<>> ELSE ShapeTerms(d)

FirstWith(P(_)) ==
    LET hits == {i \in 1..Len(lines) : P(lines[i])}
    IN  IF hits = {} THEN 0 ELSE CHOOSE i \in hits : \A j \in hits : i <= j

\* C7 as stated: once extractJSONFromResponse has returned, if some line of
\* the response has the nested shape and carries terms, the result is the
\* terms of the first such line, in the items' order, and no error.
C7_ShapedLineGivesTerms ==
    LET HasTerms(d) == ShapeTerms(d) # <<>>
        i == FirstWith(HasTerms)
    IN  (result.done /\ i # 0) =>
            result.result = ShapeTerms(lines[i]) /\ result.err = NoErr

\* C7 amended: the same for the first line that has the nested shape, carries
\* terms, and whose top-level array has at least three elements.
C7_ShapedLineOfThreeGivesTerms ==
    LET HasTerms(d) == LineTerms(d) # <<>>
        i == FirstWith(HasTerms)
    IN  (result.done /\ i # 0) =>
            result.result = LineTerms(lines[i]) /\ result.err = NoErr

\* C7 witness: a two-line response whose first line is not an array and whose
\* second line is shaped, with three top-level elements, and carries g then
\* r; the result is g, r.
C7_Witness ==
    /\ result.done /\ Len(lines) = 2
    /\ lines[1].k = "plain"
    /\ lines[2] = Line("shaped", 3, <<G, R>>, FALSE)
    /\ result.result = <<G, R>> /\ result.err = NoErr

\* C8: once extractJSONFromResponse has returned, if no line of the response
\* yields a term, the result is nil and the error is "no valid JSON found in
\* response".
C8_NoTermsGivesError ==
    (result.done /\ \A i \in 1..Len(lines) : LineTerms(lines[i]) = <<>>) =>
        /\ result.result = <<>>
        /\ result.err = Err("no valid JSON found in response", "nil", 0)

\* C8 witness: a response of two array lines, the first with a non-list where
\* the items are expected and the second with no items, has been answered
\* with the error.
C8_Witness ==
    /\ result.done /\ Len(lines) = 2
    /\ lines[1].k = "notlist" /\ lines[2] = Line("shaped", 3, <<>>, FALSE)
    /\ result.result = <<>> /\ result.err # NoErr

\* The lines that look like a JSON array and fail the nested decode: invalid
\* JSON, a first element that is no array or has fewer than three elements,
\* a third element that is no string, an inner string that is no JSON array,
\* a second inner element that is no list.
FailKinds == {"badjson", "notarr", "short", "notstr", "badinner", "notlist"}
Fails(d) == d.k \in FailKinds

\* Some line fails the nested decode and a later line j has the nested
\* shape, no line before j having yielded a term.
FailedThenShaped(j) ==
    /\ j \in 2..Len(lines)
    /\ lines[j].k = "shaped"
    /\ \E i \in 1..(j - 1) : Fails(lines[i])
    /\ \A k \in 1..(j - 1) : LineTerms(lines[k]) = <<>>

\* C20: a line that fails the nested decode at any level is skipped and the
\* scan continues: when a well-formed line (of the nested shape, with the
\* three or more top-level elements the walk requires and at least one term)
\* follows it, the result is the terms of that line and there is no error.
C20_FailingLineSkippedThenTerms ==
    \A j \in 1..Len(lines) :
        (result.done /\ FailedThenShaped(j) /\ lines[j].top >= 3 /\ lines[j].terms # <<>>) =>
            result.result = lines[j].terms /\ result.err = NoErr

\* C20 witness: a response whose first line holds a non-string where the
\* encoded string is expected and whose second line is shaped, with three
\* top-level elements, and carries r then g; the result is r, g.
C20_Witness ==
    /\ result.done /\ Len(lines) = 2
    /\ lines[1].k = "notstr"
    /\ lines[2] = Line("shaped", 3, <<R, G>>, FALSE)
    /\ result.result = <<R, G>> /\ result.err = NoErr

\* C21: when extractJSONFromResponse returns without error, its result is
\* exactly the terms of the first line that yields a term: no line before it
\* yields one, and no term of a later line is in the result even when later
\* lines yield terms too.
C21_ResultIsFirstYieldingLine ==
    (result.done /\ result.err = NoErr) =>
        \E i \in 1..Len(lines) :
            /\ LineTerms(lines[i]) # <<>>
            /\ \A k \in 1..(i - 1) : LineTerms(lines[k]) = <<>>
            /\ result.result = LineTerms(lines[i])

\* C21 witness: both lines of a response yield terms, g the first and r, g
\* the second; the result is g alone.
C21_Witness ==
    /\ result.done /\ Len(lines) = 2
    /\ lines[1] = Line("shaped", 3, <<G>>, FALSE)
    /\ lines[2] = Line("shaped", 4, <<R, G>>, FALSE)
    /\ result.result = <<G>> /\ result.err = NoErr

\* C22: extractJSONFromResponse returns for every response (every index and
\* every type assertion of the walk is guarded, so the walk has a value on
\* lines with missing levels, short arrays and elements of another type),
\* and what it returns is either a non-empty list of terms with no error or
\* nil with the error "no valid JSON found in response".
C22_TotalAndFailsClosed ==
    LET x == extractJSONFromResponse(text)
    IN  /\ \/ (x.result # <<>> /\ x.err = NoErr)
            \/ (x.result = <<>> /\ x.err = Err(errNoValidJSON, "nil", 0))
        /\ result.done => (result.result = x.result /\ result.err = x.err)

\* C22 witness: a response whose first line has a first element shorter than
\* three and whose second line has items that are no arrays, are empty or
\* are headed by a number, besides one item headed by g; the result is g.
C22_Witness ==
    /\ result.done /\ Len(lines) = 2
    /\ lines[1].k = "short" /\ lines[2].k = "mixed"
    /\ result.result = <<G>> /\ result.err = NoErr

-----------------------------------------------------------------------------
(* Claims about widget collections.                                        *)

\* A widget whose identifier has a numeric order suffix, and the suffix.
HasOrder(v) == \E t \in WidgetTypes, n \in Orders : v.ID = WithOrder(t, n)
OrderOf(v) == CHOOSE n \in Orders : \E t \in WidgetTypes : v.ID = WithOrder(t, n)
NoOrder(v) == ~HasOrder(v)

\* C9 as stated: after Sort the collection holds the widgets it held at the
\* call, the widgets without order suffix first and in the relative order
\* they had at the call, then the suffixed widgets by ascending suffix.
C9_UnsuffixedFirstInOriginalOrder ==
    out.op = "Sort" =>
        LET first == SelectSeq(e0, NoOrder)
            k == Len(first)
        IN  /\ Len(e) = Len(e0)
            /\ {e[i] : i \in 1..Len(e)} = {e0[i] : i \in 1..Len(e0)}
            /\ SubSeq(e, 1, k) = first
            /\ \A i \in (k + 1)..Len(e) : HasOrder(e[i])
            /\ \A i, j \in (k + 1)..Len(e) : i < j => OrderOf(e[i]) <= OrderOf(e[j])

\* C10: after GetWidgetsByType(t) the result is the widgets of the collection
\* whose identifier is t or t with an order suffix, in the collection's
\* order, and the collection is as it was at the call.
C10_WidgetsOfTypeInOrder ==
    out.op = "GetWidgetsByType" =>
        LET OfType(v) == v.ID = out.t \/ \E n \in Orders : v.ID = WithOrder(out.t, n)
        IN  out.res = SelectSeq(e0, OfType) /\ e = e0

\* C10 witness: of a collection holding a RELATED_TOPICS widget between two
\* RELATED_QUERIES widgets, GetWidgetsByType(RELATED_QUERIES) has returned
\* the two, the first one first.
C10_Witness ==
    /\ out.op = "GetWidgetsByType" /\ out.t = RelatedQueriesID
    /\ Len(e0) = 3 /\ e0[2].ID = WithOrder(RelatedTopicsID, 0)
    /\ out.res = <<e0[1], e0[3]>>

\* C11 as stated: after GetWidgetsByOrder(i) the result holds exactly the
\* widgets of the collection whose identifier ends in the order suffix _i,
\* wherever they stand in the collection.
C11_WidgetsOfOrder ==
    out.op = "GetWidgetsByOrder" =>
        {out.res[k] : k \in 1..Len(out.res)} =
            {e0[k] : k \in {n \in 1..Len(e0) : HasOrder(e0[n]) /\ OrderOf(e0[n]) = out.i}}

-----------------------------------------------------------------------------
(* Claims about the req parameter of the detail operations.                *)

\* The geo field as sent when it is present and holds the mapping {"": ""}.
SentBlank == [present |-> TRUE, kv |-> {<<"", "">>}]
Unset(geo) == MapLen(geo) = 0

\* C12 as stated: in the req parameter InterestByLocation or Related has
\* sent, every comparison item whose geo was unset at the call, and the
\* restriction when its geo was unset, has its geo field present and holding
\* the explicit empty mapping.
C12_UnsetGeoSentAsEmptyMapping ==
    (ret.op \in {"InterestByLocation", "Related"} /\ calls # <<>>) =>
        LET sent == calls[1].r.url.req[1]
            before == snap.w.Request
        IN  /\ \A i \in 1..Len(before.CompItem) :
                  (~before.CompItem[i].isNil /\ Unset(before.CompItem[i].Geo)) =>
                      sent.comparisonItem[i].geo = SentBlank
            /\ Unset(before.Restriction.Geo) => sent.restriction.geo = SentBlank

-----------------------------------------------------------------------------
(* Claims about response repair.                                           *)

\* The documents that decode into the destination of an endpoint, and the
\* value the endpoint returned as a document's value.
DestDocs(op) ==
    CASE op = "ExploreCategories" -> {"J1", "J3"}
      [] op = "ExploreLocations" -> {"J2"}
      [] OTHER -> {"J1", "J2", "J3"}
ReturnedValueOf(d) ==
    /\ ret.err = NoErr
    /\ IF ret.op \in {"ExploreCategories", "ExploreLocations"}
       THEN ret.tree = DocTree(d) ELSE ret.data = d

\* What is claimed of an endpoint whose token is tok: a document alone and
\* the token followed by the document decode to the document's value, and
\* of two tokens only the first is removed, so that the decode fails.
RepairedWith(tok) ==
    \A d \in DestDocs(ret.op) :
        LET b == calls[1].resp.body
        IN  /\ b \in {<<d>>, tok \o <<d>>} => ReturnedValueOf(d)
            /\ b = tok \o tok \o <<d>> => ret.err = Err("failed to parse json", "json", 0)

\* C13 as stated: every endpoint other than the batch endpoint repairs a body
\* that begins with the token )]}' .
C13_TokenThenDocumentDecodes ==
    (ret.op \in RepairOps /\ Len(calls) = 1) => RepairedWith(<<"PFX">>)

\* C13 amended: ExploreCategories, ExploreLocations and Explore repair a body
\* that begins with )]}' ; InterestOverTime, InterestByLocation, Related and
\* Search repair a body that begins with )]}', (the token and a comma).
C13_EndpointTokenThenDocumentDecodes ==
    (ret.op \in RepairOps /\ Len(calls) = 1) =>
        RepairedWith(IF ret.op \in {"ExploreCategories", "ExploreLocations", "Explore"}
                     THEN <<"PFX">> ELSE <<"PFX", ",">>)

\* C13 witness: ExploreCategories has decoded the body )]}' followed by the
\* document of the node named X, and returned that node.
C13_Witness ==
    /\ ret.op = "ExploreCategories" /\ Len(calls) = 1
    /\ calls[1].resp.body = <<"PFX", "J1">>
    /\ ret.err = NoErr /\ ret.tree.name = "X"

-----------------------------------------------------------------------------
(* Claims about the session cookie.                                        *)

\* The request of the first call of the current (or last) operation carries
\* the header Cookie: s.
FirstSendCarries(s) == calls[1].r.hasCookie /\ calls[1].r.cookieVal = s

\* C14 as stated, for an operation that follows the capture by two or more:
\* when the operation begins, the cookie that was stored when the operation
\* before it began (captured earlier still) is the Cookie header of its
\* first send; and with no cookie captured its first send has no Cookie
\* header.
C14_CapturedCookieOnEveryLaterSend ==
    [][(pc = "idle" /\ Len(calls') = 1) =>
          /\ snap.cookie # <<>> =>
                (calls'[1].r.hasCookie /\ calls'[1].r.cookieVal = snap.cookie)
          /\ (snap.cookie = <<>> /\ cookie = <<>>) => ~calls'[1].r.hasCookie]_vars

\* C14 amended: the first send of every operation carries Cookie: c exactly
\* when the cookie c stored at that moment is not empty, and no Cookie header
\* otherwise; the stored cookie is replaced by every 429 answer to a first
\* send (by the first segment of its Set-Cookie header, which is empty when
\* there is none), and by nothing else.
C14_StoredCookieOnFirstSend ==
    /\ Len(calls) >= 1 =>
          IF snap.cookie # <<>> THEN FirstSendCarries(snap.cookie)
          ELSE ~calls[1].r.hasCookie
    /\ cookie = IF Answered(1, StatusTooManyRequests)
                THEN FirstSegment(calls[1].resp.setCookie)
                ELSE snap.cookie

\* C14 witness: a POST that began with the cookie a stored has been sent
\* with Cookie: a and answered 200.
C14_Witness ==
    /\ Returned /\ ret.op = "doPost" /\ Len(calls) = 1
    /\ snap.cookie = <<"a">> /\ FirstSendCarries(<<"a">>)
    /\ Answered(1, StatusOK)

-----------------------------------------------------------------------------
(* Claims about concurrent callers and the cache slots.                    *)

Last(s) == s[Len(s)]
Done(p) == proc[p].pc = "done"

\* The last answer a caller received is a 200 whose body is the token and
\* the document d.
FetchedDoc(p, d) ==
    /\ proc[p].answers # <<>>
    /\ Last(proc[p].answers) = Response(StatusOK, <<>>, <<"PFX", d>>)

\* C15 as stated: of the callers of one operation that began on a cold
\* cache, none crashes, every
\* caller that has finished returned without error the tree of the document
\* it fetched when its fetch succeeded, and a tree that was stored when it
\* did not fetch; every successful fetch is stored; and once all callers
\* have finished the slot holds the tree that was stored last, and is unset
\* only if no fetch succeeded.
C15_ConcurrentColdCallers ==
    /\ \A p \in Procs : ~At(p, "crashed")
    /\ \A p \in Procs : Done(p) =>
          /\ \A d \in DestDocs(proc[p].op) :
                FetchedDoc(p, d) => (proc[p].err = NoErr /\ proc[p].tree = DocTree(d))
          /\ proc[p].answers = <<>> =>
                /\ proc[p].err = NoErr
                /\ \E i \in 1..Len(writes[Sl(p)]) : proc[p].tree = writes[Sl(p)][i]
    /\ (\A p \in Procs : Done(p)) =>
          \A op \in ConcOps :
              LET stored == {p \in Procs : proc[p].op = op /\
                                \E d \in DestDocs(op) : FetchedDoc(p, d)}
                  sl == SlotOf(op)
              IN  /\ Len(writes[sl]) = Cardinality(stored)
                  /\ stored = {} => SlotVal(sl) = NilTree
                  /\ stored # {} => SlotVal(sl) = Last(writes[sl])


\* C16: a read under the read lock returns nil when nothing has been written
\* to the slot and the value of the most recent write otherwise, and a write
\* leaves its value in the slot whatever the slot held.
C16_ReadReturnsLastWrite ==
    /\ \A sl \in {"cm", "lm"} :
          SlotVal(sl) = IF writes[sl] = <<>> THEN NilTree ELSE Last(writes[sl])
    /\ \A p \in Procs :
          /\ At(p, "runlock") =>
                proc[p].local = IF writes[Sl(p)] = <<>> THEN NilTree ELSE Last(writes[Sl(p)])
          /\ At(p, "unlock") => SlotVal(Sl(p)) = proc[p].out

\* C16 witness: caller 1 has fetched, written X to the categories slot and
\* returned, and caller 2 has read the slot after that and holds X.
C16_Witness ==
    /\ Done(1) /\ proc[1].out = Tree("X", "1")
    /\ writes.cm = <<Tree("X", "1")>>
    /\ At(2, "runlock") /\ proc[2].local = Tree("X", "1")

-----------------------------------------------------------------------------
(* Claims about the req parameter of Explore.                              *)

\* The descriptor read back from the req parameter of the i-th send.
Decoded(i) == UnmarshalExploreRequest(ParseReq(calls[i].r.url.req))

\* The descriptor r with every plus sign in the time of a term turned into
\* a space.
RECURSIVE PlusAsSpace(_)
PlusAsSpace(s) ==
    IF s = <<>> THEN <<>>
    ELSE <<(IF Head(s) = "+" THEN " " ELSE Head(s))>> \o PlusAsSpace(Tail(s))
TimesRewritten(r) ==
    [r EXCEPT !.ComparisonItems =
        [i \in 1..Len(r.ComparisonItems) |->
            [r.ComparisonItems[i] EXCEPT !.Time = PlusAsSpace(r.ComparisonItems[i].Time)]]]

\* C17 as stated: every request of Explore carries req, and the descriptor
\* decoded from it is the descriptor the caller passed.
C17_ReqDecodesToPassedDescriptor ==
    \A i \in 1..Len(calls) :
        calls[i].r.url.req.set /\ Decoded(i) = snap.exploreReq

\* C17 amended: every request of Explore carries req, and the descriptor
\* decoded from it is the descriptor the caller passed with every plus sign
\* in a term's time turned into a space; the caller's descriptor itself has
\* been rewritten in the same way.
C17_ReqDecodesToRewrittenDescriptor ==
    \A i \in 1..Len(calls) :
        /\ calls[i].r.url.req.set
        /\ Decoded(i) = TimesRewritten(snap.exploreReq)
        /\ exploreReq = TimesRewritten(snap.exploreReq)

\* C17 witness: Explore has sent a request for a descriptor of two terms,
\* one with a plus sign, an ampersand and a quote in its keyword and a plus
\* sign in its time, the other without geo.
C17_Witness ==
    /\ Len(calls) >= 1
    /\ Len(snap.exploreReq.ComparisonItems) = 2
    /\ snap.exploreReq.ComparisonItems[1] =
           ComparisonItem(<<"+", "&", "\"">>, <<"U", "S">>, <<"a", "+", "1">>)
    /\ snap.exploreReq.ComparisonItems[2].Geo = <<>>
    /\ Decoded(1).ComparisonItems[1].Time = <<"a", " ", "1">>

-----------------------------------------------------------------------------
(* Claims about the assignments to the stored cookie.                      *)

\* C18 as stated: a step changes the stored cookie only if the send of that
\* step was answered 429 with a Set-Cookie header that is not empty; no other
\* answer, and no 429 without or with an empty Set-Cookie, changes it.
C18_CookieChangesOnlyOnSetCookie ==
    [][cookie' # cookie =>
          /\ calls' # <<>>
          /\ Last(calls').resp.kind = "resp"
          /\ Last(calls').resp.status = StatusTooManyRequests
          /\ Last(calls').resp.setCookie # <<>>]_vars

\* C19 as stated: once a cookie has been captured, no step changes it.
C19_CookieAssignedAtMostOnce ==
    [][cookie # <<>> => cookie' = cookie]_vars

\* C19 amended: the stored cookie is assigned at every 429 answer to the
\* first send of an operation, to the first segment of that answer's
\* Set-Cookie header (the empty string when there is none), whatever was
\* stored before; no other answer, the answer to a resend included, and no
\* operation served from the cache changes it.
C19_CookieAssignedAtEveryFirst429 ==
    [][cookie' =
          IF /\ pc = "idle" /\ Len(calls') = 1
             /\ calls'[1].resp.kind = "resp"
             /\ calls'[1].resp.status = StatusTooManyRequests
          THEN FirstSegment(calls'[1].resp.setCookie)
          ELSE cookie]_vars

\* C19 witness: an operation that began with the cookie a stored was
\* answered 429 with Set-Cookie: aa, answered 429 again at its resend, and
\* the stored cookie is aa.
C19_Witness ==
    /\ snap.cookie = <<"a">>
    /\ Answered(1, StatusTooManyRequests) /\ calls[1].resp.setCookie = <<"a", "a">>
    /\ Answered(2, StatusTooManyRequests)
    /\ cookie = <<"a", "a">>

-----------------------------------------------------------------------------
(* Claims about the detail operations and the caller's widget.             *)

\* C23 as stated: no detail operation panics, whatever widget it is given;
\* in particular Related on a RELATED_QUERIES or RELATED_TOPICS widget whose
\* restriction has a nil geo map returns a result or an error.
C23_NoOperationPanics == pc # "panicked"

\* The data mode as json.Marshal writes it: left out when empty.
SentMode(mode) == IF mode = "" THEN <<>> ELSE <<mode>>

\* C24: in every request InterestByLocation sends, the data mode of the req
\* parameter is PERCENTAGES when the widget's sub-request had more than one
\* comparison item at the call, and the data mode the sub-request had at the
\* call otherwise.
C24_PercentagesForSeveralTerms ==
    (ret.op = "InterestByLocation" /\ calls # <<>>) =>
        \A i \in 1..Len(calls) :
            calls[i].r.url.req[1].dataMode =
                IF Len(snap.w.Request.CompItem) > 1
                THEN SentMode(compareDataMode)
                ELSE SentMode(snap.w.Request.DataMode)

\* C24 witness: InterestByLocation has sent the sub-request of a widget with
\* two comparison items and data mode TIME_SERIES, with PERCENTAGES.
C24_Witness ==
    /\ ret.op = "InterestByLocation" /\ Len(calls) >= 1
    /\ Len(snap.w.Request.CompItem) = 2
    /\ snap.w.Request.DataMode = "TIME_SERIES"
    /\ calls[1].r.url.req[1].dataMode = <<"PERCENTAGES">>

\* A detail operation has returned (it did not panic).
DetailReturned == pc = "idle" /\ ret.op \in DetailOps

\* The geo map now is the one before, or the blank map in place of an unset one.
SameOrBlanked(now, before) == now = before \/ (Unset(before) /\ now = BlankMap)

\* C25 as stated: after a detail operation has returned, with or without
\* error, the caller's widget and its sub-request are as they were at the
\* call, except that an unset geo map may have become the blank map.
C25_WidgetReadOnlyButGeo ==
    DetailReturned =>
        /\ w.Token = snap.w.Token /\ w.ID = snap.w.ID
        /\ w.Request.isNil = snap.w.Request.isNil
        /\ w.Request.DataMode = snap.w.Request.DataMode
        /\ SameOrBlanked(w.Request.Restriction.Geo, snap.w.Request.Restriction.Geo)
        /\ Len(w.Request.CompItem) = Len(snap.w.Request.CompItem)
        /\ \A i \in 1..Len(w.Request.CompItem) :
              /\ w.Request.CompItem[i].isNil = snap.w.Request.CompItem[i].isNil
              /\ SameOrBlanked(w.Request.CompItem[i].Geo, snap.w.Request.CompItem[i].Geo)

\* The widget a detail operation leaves to its caller: InterestOverTime has
\* blanked the unset geo map of every comparison item, InterestByLocation
\* has set the data mode of a sub-request of several items to PERCENTAGES,
\* Related has blanked an unset geo map of the restriction; an operation
\* that rejects the widget's type leaves it as it was.
WidgetLeft(op, before) ==
    LET rq == before.Request
        fits == CASE op = "InterestOverTime" -> StartsWith(before.ID, IntOverTimeWidgetID)
                  [] op = "InterestByLocation" -> StartsWith(before.ID, IntOverRegionID)
                  [] op = "Related" -> \/ StartsWith(before.ID, RelatedQueriesID)
                                       \/ StartsWith(before.ID, RelatedTopicsID)
    IN  IF ~fits THEN before
        ELSE [before EXCEPT !.Request =
                [isNil |-> rq.isNil,
                 CompItem |->
                    [i \in 1..Len(rq.CompItem) |->
                        IF op = "InterestOverTime" /\ ~rq.CompItem[i].isNil
                                                   /\ Unset(rq.CompItem[i].Geo)
                        THEN [isNil |-> FALSE, Geo |-> BlankMap]
                        ELSE rq.CompItem[i]],
                 Restriction |->
                    [Geo |-> IF op = "Related" /\ Unset(rq.Restriction.Geo)
                             THEN BlankMap ELSE rq.Restriction.Geo],
                 DataMode |->
                    IF op = "InterestByLocation" /\ Len(rq.CompItem) > 1
                    THEN "PERCENTAGES" ELSE rq.DataMode]]

\* C25 amended: after a detail operation has returned, with or without
\* error, the caller's widget is as it was at the call except for what the
\* operation writes into the sub-request before it marshals it: the blank
\* geo map in place of an unset one (the comparison items in
\* InterestOverTime, the restriction in Related), and the data mode
\* PERCENTAGES in InterestByLocation when there are several items.
C25_WidgetAsLeftByOperation ==
    DetailReturned => w = WidgetLeft(ret.op, snap.w)

\* C25 witness: InterestOverTime has returned an error for a widget whose
\* first comparison item had a nil geo map; the item now has the blank map.
C25_Witness ==
    /\ DetailReturned /\ ret.op = "InterestOverTime" /\ ret.err # NoErr
    /\ calls # <<>>
    /\ Len(snap.w.Request.CompItem) >= 1
    /\ snap.w.Request.CompItem[1] = Item(NilMap)
    /\ w.Request.CompItem[1] = Item(BlankMap)

-----------------------------------------------------------------------------
(* Claims about the locks of the cache slots.                              *)

\* A caller is between RLock and RUnlock, or between Lock and Unlock, of
\* the slot sl.
Reading(p, sl) == Sl(p) = sl /\ proc[p].pc \in {"rlocked", "runlock"}
Writing(p, sl) == Sl(p) = sl /\ proc[p].pc \in {"wlocked", "unlock"}

\* C26: while a caller is inside the write section of a slot, no other caller
\* is inside the read section or the write section of that slot.
C26_WriterExcludesAll ==
    \A sl \in {"cm", "lm"} : \A p \in Procs :
        Writing(p, sl) =>
            \A q \in Procs \ {p} : ~Reading(q, sl) /\ ~Writing(q, sl)

\* C26 witness: two callers are inside the read section of the categories
\* slot together.
C26_Witness ==
    /\ Reading(1, "cm") /\ Reading(2, "cm")
    /\ lock.cm.readers = {1, 2}

\* The caller p holds the lock of the slot sl, for reading or for writing.
Holds(p, sl) == p \in lock[sl].readers \/ lock[sl].writer = p

\* C27: no caller ever holds the lock of both slots; a step that changes the
\* content of one slot leaves the content of the other as it was; and no set
\* of callers blocks for ever: a caller waiting for a read lock gets past
\* its read, a caller waiting for the write lock returns, and in the end
\* both locks are free for good.
C27_SlotsIndependentNoDeadlock ==
    /\ [](\A p \in Procs : ~(Holds(p, "cm") /\ Holds(p, "lm")))
    /\ [][/\ exploreCats' # exploreCats => exploreLocs' = exploreLocs
          /\ exploreLocs' # exploreLocs => exploreCats' = exploreCats]_vars
    /\ \A p \in Procs : At(p, "start") ~> ~(At(p, "start") \/ Holds(p, Sl(p)))
    /\ \A p \in Procs : At(p, "store") ~> At(p, "done")
    /\ <>[](lock = [cm |-> Unlocked, lm |-> Unlocked])

\* C27 witness: a caller is about to release the write lock of the
\* categories slot, which it has written, while another caller holds the
\* read lock of the locations slot, which is still unset.
C27_Witness ==
    /\ At(1, "unlock") /\ Sl(1) = "cm" /\ ~exploreCats.isNil
    /\ Reading(2, "lm") /\ exploreLocs.isNil
    /\ lock.cm.writer = 1 /\ lock.lm.readers = {2}

\* The caller p is between the start of client.do and its return.
InFlight(p) == proc[p].pc \in {"fetch", "answered", "resend"}

\* The caller p read an unset slot and its fetch has returned.
FetchedCold(p) ==
    proc[p].local.isNil /\ proc[p].pc \in {"store", "wlocked", "unlock", "done"}

\* C28: a caller inside client.do holds no cache lock, so the locks are held
\* only by callers inside an accessor; and every caller that read an unset
\* slot has sent a request of its own to the path of its operation, whatever
\* the other callers were doing.
C28_NoLockWhileSending ==
    /\ \A p \in Procs : InFlight(p) => ~Holds(p, "cm") /\ ~Holds(p, "lm")
    /\ \A p \in Procs : \A sl \in {"cm", "lm"} :
            Holds(p, sl) => Reading(p, sl) \/ Writing(p, sl)
    /\ \A p \in Procs :
            FetchedCold(p) =>
                /\ Len(proc[p].answers) >= 1
                /\ proc[p].r.url = URL(PathOf(proc[p].op), <<>>, <<>>)

\* C28 witness: both callers of ExploreCategories read the unset slot, the
\* second one read it and took the write lock while the first was waiting
\* for its answer, and each has sent its own request.
C28_Witness ==
    /\ proc[1].op = "ExploreCategories" /\ proc[2].op = "ExploreCategories"
    /\ At(1, "answered") /\ proc[1].local.isNil
    /\ At(2, "wlocked") /\ proc[2].local.isNil /\ Len(proc[2].answers) = 1
    /\ lock.cm.writer = 2

-----------------------------------------------------------------------------
(* Claims about a failed fetch of a cached operation and about the resend  *)
(* of doPost (specification Spec).                                         *)

\* The documents the destination of a cached operation takes.
DocsOf(op) == IF op = "ExploreCategories" THEN CatDocs ELSE LocDocs

\* The answer resp is one a cached operation can use: a 200 whose body is
\* the token and a document of the operation's destination.
Usable(op, resp) ==
    /\ resp.kind = "resp" /\ resp.status = StatusOK
    /\ \E d \in DocsOf(op) : resp.body = <<"PFX", d>>

\* The cached operation op has returned from a call that found its slot unset.
ReturnedCold(op) ==
    /\ Returned /\ ret.op = op
    /\ IF op = "ExploreCategories" THEN snap.exploreCats.isNil ELSE snap.exploreLocs.isNil

\* C29: a call of ExploreCategories or ExploreLocations on an unset slot
\* whose last answer is a transport failure, a status other than 200 or a
\* body that does not decode returns nil and an error and leaves both slots
\* as they were; and the call that follows a failed one on the still unset
\* slot calls the sender again, with a request for the operation's path.
C29_FailedFetchLeavesSlotUnset ==
    /\ [](\A op \in ConcOps :
            /\ (ReturnedCold(op) /\ ~Usable(op, Last(calls).resp)) => ret.err # NoErr
            /\ (Returned /\ ret.op = op /\ ret.err # NoErr) =>
                  /\ ret.tree = NilTree
                  /\ calls # <<>>
                  /\ exploreCats = snap.exploreCats
                  /\ exploreLocs = snap.exploreLocs
                  /\ SlotVal(SlotOf(op)).isNil)
    /\ [][\A op \in ConcOps :
            (Returned /\ ret.op = op /\ ret.err # NoErr /\ ret'.op = op) =>
                /\ Len(calls') = 1
                /\ calls'[1].r.method = "GET"
                /\ calls'[1].r.url = URL(PathOf(op), <<>>, <<>>)]_vars

\* C29 witness: ExploreCategories was answered 429 and then a 200 whose body
\* is a document of another type; it returned the decode error, the
\* categories slot is still unset and the locations slot keeps its tree.
C29_Witness ==
    /\ Returned /\ ret.op = "ExploreCategories"
    /\ Len(calls) = 2 /\ calls[2].resp = Response(StatusOK, <<>>, <<"PFX", "J2">>)
    /\ ret.err = Err(errParsing, "json", 0)
    /\ exploreCats.isNil /\ exploreLocs = Tree("Y", "US")

\* C30: when doPost has called the sender twice, the second request has the
\* method, the URL and the whole payload of the first and the captured
\* segment as its Cookie header.
C30_ResendCarriesWholePayload ==
    (ret.op = "doPost" /\ Len(calls) = 2) =>
        /\ calls[2].r.method = calls[1].r.method
        /\ calls[2].r.url = calls[1].r.url
        /\ calls[2].r.payload = calls[1].r.payload
        /\ calls[2].r.hasCookie
        /\ calls[2].r.cookieVal = FirstSegment(calls[1].resp.setCookie)

====
